---- MODULE Spec2Model ----
(***************************************************************************)
(* Verification model of the Legal-RAG preprocessor core:                  *)
(*   - search_source_text / verify_search_fields / normalize_search_fields *)
(*     (13_text_classifier.py)                                             *)
(*   - process_document and its helpers (merge_footnotes.py)               *)
(* Strings are sequences of one-character strings.                         *)
(***************************************************************************)
EXTENDS Integers, Sequences, FiniteSets, TLC

VARIABLES
    pc,            \* position of the modelled call: "idle" before, "done" after
    pages,         \* List[Dict]: <<[number |-> n, text |-> Str], ...>>
    search_text,   \* argument of search_source_text
    page_number,   \* argument of search_source_text
    result,        \* return value of search_source_text
    verify,        \* _classify_and_write: the --verify flag
    llm_result,    \* _classify_and_write: the classification the service returned
    out,           \* _classify_and_write: result after step 6, as written out
    content,       \* merge: the lines of the combined .md document
    inventory,     \* merge: classification_fns as passed to process_document
    classification_fns,  \* merge: the same dict after the call (corrected in place)
    merged_content,      \* merge: returned document, as lines
    stats,         \* merge: returned statistics
    all_ocr_texts, \* merge: ocr_texts of process_document, number -> scanned text
    fn_result,     \* generate_footnote_index: result["pages"]
    issues,        \* generate_footnote_index: the returned list of issues
    coa_list,      \* verify_causes_of_action: the candidates
    verified_coas, \* verify_causes_of_action: the returned list
    input_exists,  \* merge main: the input .md file exists
    ocr_only,      \* merge main: the --ocr-only flag
    dry_run,       \* merge main: the --dry-run flag
    class_pages,   \* merge main: "pages" of the classification output, if any
    output_file,   \* merge main: the output file, <<>> while not written
    exit_status,   \* merge main: "" while running, then "ok" or "error"
    mode,          \* callers: "cli" (process_all), "gui" (the window), "" otherwise
    batch,         \* process_all: the documents, the loop position, the counters
    processing,    \* GUI: self.processing
    stop_requested,\* GUI: self._stop_requested
    workers,       \* GUI: the live background threads, by thread id
    after_queue,   \* GUI: the _processing_finished callbacks posted with root.after
    last_done,     \* GUI: the counts of the last "Done." line a worker logged
    runs,          \* GUI: the number of runs started so far
    rm_lines,      \* remove_fn_text_blocks: the argument lines
    rm_numbers,    \* remove_fn_text_blocks: the argument fn_numbers_to_remove
    rm_cleaned     \* remove_fn_text_blocks: the returned list

searchVars   == <<search_text, page_number, result>>
classifyVars == <<verify, llm_result, out>>
mergeVars    == <<content, inventory, classification_fns, merged_content, stats,
                  all_ocr_texts>>
indexVars    == <<fn_result, issues>>
coaVars      == <<coa_list, verified_coas>>
mainVars     == <<input_exists, ocr_only, dry_run, class_pages, output_file, exit_status>>
guiVars      == <<mode, batch, processing, stop_requested, workers, after_queue,
                  last_done, runs>>
removeVars   == <<rm_lines, rm_numbers, rm_cleaned>>
auxVars      == <<indexVars, coaVars, mainVars, guiVars, removeVars>>
vars == <<pc, pages, searchVars, classifyVars, mergeVars, auxVars>>

(***************************************************************************)
(* Bounds                                                                  *)
(***************************************************************************)
MaxDocChars == 3     \* total characters over the pages of the page store
MaxCandLen  == 3     \* characters of a search candidate
MaxPageNum  == 3     \* page numbers are 1..MaxPageNum
MaxCoa      == 2     \* causes of action in one classification result
MaxFn       == 2     \* footnote numbers are 1..MaxFn
MaxPage     == 2     \* page numbers of the merged document are 1..MaxPage
MaxBlocks   == 2     \* page blocks of the merged document
MaxDocLines == 2     \* lines over all page blocks of the merged document
MaxRecs     == 4     \* footnote records of one classification result
MaxIdxNum   == 6     \* footnote numbers of those records are -1..MaxIdxNum
MaxMainLines == 4    \* lines of the document handed to the merge program
MaxClassFns  == 2    \* footnotes listed in the classification output
MaxPara      == 4    \* paragraph numbers in the page texts are 1..MaxPara
MaxParaLines == 3    \* lines of text over the pages of the document
MaxRanges    == 1    \* causes of action handed to verify_causes_of_action
MaxDocs      == 2    \* documents handed to one run of a multi-document caller
MaxRuns      == 2    \* runs started from the window
MaxThreads   == 2    \* thread ids that can be alive at once
MaxRemoveLines == 4  \* lines handed to remove_fn_text_blocks

(***************************************************************************)
(* Characters.  Letters, the whitespace the index walk knows about, and a  *)
(* whitespace character (form feed) that only the regex \s knows about.    *)
(***************************************************************************)
Letters  == {"a", "b"}
Alphabet == Letters \cup {" ", "\n", "\f"}

\* Python's \s and str.strip(): every Unicode whitespace character
ReSpace(c) == c \in {" ", "\t", "\n", "\r", "\f"}

\* the literal " \t\n\r" tested by the index walk
WalkSpace(c) == c \in {" ", "\t", "\n", "\r"}

StrsUpTo(n) == UNION {[1..k -> Alphabet] : k \in 0..n}

None == [kind |-> "None", text |-> <<>>]
Some(s) == [kind |-> "str", text |-> s]
IndexError == [kind |-> "IndexError", text |-> <<>>]

(***************************************************************************)
(* str.strip() and re.sub(r"\s+", " ", s)                                  *)
(***************************************************************************)
RECURSIVE LStrip(_)
LStrip(s) ==
    IF s # <<>> /\ ReSpace(Head(s)) THEN LStrip(Tail(s)) ELSE s

RECURSIVE RStrip(_)
RStrip(s) ==
    IF s # <<>> /\ ReSpace(s[Len(s)]) THEN RStrip(SubSeq(s, 1, Len(s) - 1)) ELSE s

Strip(s) == RStrip(LStrip(s))

RECURSIVE CollapseRuns(_)
CollapseRuns(s) ==
    IF s = <<>> THEN <<>>
    ELSE IF ReSpace(Head(s)) THEN <<" ">> \o CollapseRuns(LStrip(s))
    ELSE <<Head(s)>> \o CollapseRuns(Tail(s))

\* faulty variant: every whitespace character becomes a space, runs are not
\* collapsed, and one whitespace character at most is cut from each end
normalize_CutsOneEachSide(s) ==
    LET spaced == [i \in 1..Len(s) |-> IF ReSpace(s[i]) THEN " " ELSE s[i]]
        left   == IF spaced # <<>> /\ Head(spaced) = " " THEN Tail(spaced) ELSE spaced
    IN  IF left # <<>> /\ left[Len(left)] = " "
        THEN SubSeq(left, 1, Len(left) - 1) ELSE left

\* normalize of search_source_text: re.sub(r"\s+", " ", s).strip()
normalize(s) == Strip(CollapseRuns(s))

(***************************************************************************)
(* str.find: 0-based index of the first occurrence, -1 when absent         *)
(***************************************************************************)
OccursAt(hay, needle, i) ==
    /\ i + Len(needle) <= Len(hay)
    /\ SubSeq(hay, i + 1, i + Len(needle)) = needle

find(hay, needle) ==
    IF \E i \in 0..Len(hay) : OccursAt(hay, needle, i)
    THEN CHOOSE i \in 0..Len(hay) :
            /\ OccursAt(hay, needle, i)
            /\ \A j \in 0..(i - 1) : ~OccursAt(hay, needle, j)
    ELSE -1

IsSubstring(s, t) == \E i \in 0..Len(t) : OccursAt(t, s, i)

(***************************************************************************)
(* The index walk of search_source_text (0-based positions)                *)
(***************************************************************************)
\* while src_i < len(source) and source[src_i] in " \t\n\r": src_i += 1
RECURSIVE SkipRun(_, _)
SkipRun(source, src_i) ==
    IF src_i < Len(source) /\ WalkSpace(source[src_i + 1])
    THEN SkipRun(source, src_i + 1)
    ELSE src_i

\* while norm_i < idx: ...   (source[src_i] is read without a bounds test:
\* -1 stands for the IndexError of a read past the end)
RECURSIVE AdvanceToStart(_, _, _, _)
AdvanceToStart(source, src_i, norm_i, idx) ==
    IF ~(norm_i < idx) THEN src_i
    ELSE IF src_i >= Len(source) THEN -1
    ELSE IF WalkSpace(source[src_i + 1])
         THEN AdvanceToStart(source, SkipRun(source, src_i), norm_i + 1, idx)
         ELSE AdvanceToStart(source, src_i + 1, norm_i + 1, idx)

\* while consumed < match_len and src_i < len(source): ...
RECURSIVE AdvanceMatch(_, _, _, _)
AdvanceMatch(source, src_i, consumed, match_len) ==
    IF ~(consumed < match_len /\ src_i < Len(source)) THEN src_i
    ELSE IF WalkSpace(source[src_i + 1])
         THEN AdvanceMatch(source, SkipRun(source, src_i), consumed + 1, match_len)
         ELSE AdvanceMatch(source, src_i + 1, consumed + 1, match_len)

\* for pg in pages: if pg["number"] == page_number: target_page = pg; break
HasPage(pgs, p) == \E i \in 1..Len(pgs) : pgs[i].number = p

\* faulty variant: the page number is ignored and the first page is searched
target_page_IgnoresNumber(pgs, p) == pgs[1]

target_page(pgs, p) ==
    pgs[CHOOSE i \in 1..Len(pgs) :
            /\ pgs[i].number = p
            /\ \A j \in 1..(i - 1) : pgs[j].number # p]

\* faulty variant: the walk starts at index 0 without skipping the leading
\* whitespace that normalize trims
MapToOriginal_NoLeadingSkip(source, needle) ==
    LET source_norm == normalize(source)
        idx         == find(source_norm, needle)
        match_start == AdvanceToStart(source, 0, 0, idx)
        end_i       == AdvanceMatch(source, match_start, 0, Len(needle))
    IN  IF idx = -1 THEN None
        ELSE IF match_start = -1 THEN IndexError
        ELSE Some(SubSeq(source, match_start + 1, end_i))

\* the part of search_source_text after the target page is found
MapToOriginal(source, needle) ==
    LET source_norm == normalize(source)
        idx         == find(source_norm, needle)
        match_start == AdvanceToStart(source, SkipRun(source, 0), 0, idx)
        end_i       == AdvanceMatch(source, match_start, 0, Len(needle))
    IN  IF idx = -1 THEN None
        ELSE IF match_start = -1 THEN IndexError
        ELSE Some(SubSeq(source, match_start + 1, end_i))

\* faulty variant: only the empty candidate is rejected up front, and the
\* normalized needle is not tested for emptiness
search_source_text_NoBlankGuard(cand, p, pgs) ==
    IF cand = <<>> THEN None
    ELSE IF ~HasPage(pgs, p) THEN None
    ELSE MapToOriginal(target_page(pgs, p).text, normalize(cand))

search_source_text(cand, p, pgs) ==
    IF cand = <<>> \/ Strip(cand) = <<>> THEN None
    ELSE IF ~HasPage(pgs, p) THEN None
    ELSE IF normalize(cand) = <<>> THEN None
    ELSE MapToOriginal(target_page(pgs, p).text, normalize(cand))

(***************************************************************************)
(* Specification of the search: a page store, then one call                *)
(***************************************************************************)
PageStores ==
    {<<[number |-> n1, text |-> t1], [number |-> n2, text |-> t2]>> :
        <<n1, n2, t1, t2>> \in
            {q \in (1..MaxPageNum) \X (1..MaxPageNum)
                     \X StrsUpTo(MaxDocChars) \X StrsUpTo(MaxDocChars) :
                q[1] < q[2] /\ Len(q[3]) + Len(q[4]) <= MaxDocChars}}

NoLlmResult == [document_title |-> [search_text |-> <<>>, page |-> 1],
                causes_of_action |-> <<>>]
NoOutput == [document_title |-> <<>>, document_title_verified |-> <<>>,
             document_title_proposed_value |-> <<>>, causes_of_action |-> <<>>]

ClassifyIdle ==
    /\ verify = FALSE
    /\ llm_result = NoLlmResult
    /\ out = NoOutput

NoStats == [source |-> "", total_found |-> 0, total_merged |-> 0,
            total_unmatched |-> 0, total_no_ocr_text |-> 0,
            pages_with_footnotes |-> 0, page_details |-> <<>>]

MergeIdle ==
    /\ content = <<>>
    /\ inventory = <<>>
    /\ classification_fns = <<>>
    /\ merged_content = <<>>
    /\ stats = NoStats
    /\ all_ocr_texts = <<>>

IndexIdle ==
    /\ fn_result = <<>>
    /\ issues = <<>>

CoaIdle ==
    /\ coa_list = <<>>
    /\ verified_coas = <<>>

MainIdle ==
    /\ input_exists = TRUE
    /\ ocr_only = FALSE
    /\ dry_run = FALSE
    /\ class_pages = <<>>
    /\ output_file = <<>>
    /\ exit_status = ""

NoBatch == [doc_dirs |-> <<>>, i |-> 1, processed |-> 0, skipped |-> 0,
            returned |-> FALSE]
NoDone  == [kind |-> "", paths |-> <<>>, attempted |-> 0, success |-> 0,
            failed |-> 0, broke |-> FALSE]

GuiIdle ==
    /\ mode = ""
    /\ batch = NoBatch
    /\ processing = FALSE
    /\ stop_requested = FALSE
    /\ workers = <<>>
    /\ after_queue = 0
    /\ last_done = NoDone
    /\ runs = 0

RemoveIdle ==
    /\ rm_lines = <<>>
    /\ rm_numbers = {}
    /\ rm_cleaned = <<>>

AuxIdle == IndexIdle /\ CoaIdle /\ MainIdle /\ GuiIdle /\ RemoveIdle

InitSearch ==
    /\ pc = "idle"
    /\ pages \in PageStores
    /\ search_text = <<>>
    /\ page_number = 0
    /\ result = None
    /\ ClassifyIdle
    /\ MergeIdle
    /\ AuxIdle

Search ==
    /\ pc = "idle"
    /\ \E cand \in StrsUpTo(MaxCandLen), p \in 1..MaxPageNum :
        /\ search_text' = cand
        /\ page_number' = p
        /\ result' = search_source_text(cand, p, pages)
    /\ pc' = "done"
    /\ UNCHANGED <<pages, classifyVars, mergeVars, auxVars>>

NextSearch == Search

SpecSearch == InitSearch /\ [][NextSearch]_vars

(***************************************************************************)
(* Properties of search_source_text                                        *)
(***************************************************************************)
Blank(s) == \A i \in 1..Len(s) : ReSpace(s[i])
NoSpace(s) == \A i \in 1..Len(s) : ~ReSpace(s[i])
OnlyWalkSpace(s) == \A i \in 1..Len(s) : ReSpace(s[i]) => WalkSpace(s[i])

Searched == pc = "done" /\ HasPage(pages, page_number)
\* the raw text of the page numbered page_number (page numbers are unique)
PageText ==
    LET i == CHOOSE k \in 1..Len(pages) : pages[k].number = page_number
    IN  pages[i].text

\* C1 (as stated): for every page text T and every contiguous substring S
\* of T, the search on the page holding T returns exactly S.
C1_SubstringReturnedExactly ==
    (Searched /\ IsSubstring(search_text, PageText))
        => result = Some(search_text)

\* C1 (amended): for every page text T and contiguous substring S of T, an
\* empty or whitespace-only S is not found; any other S is found and the
\* result is a non-empty contiguous substring of T; and the result is
\* exactly S when S contains no whitespace and the only whitespace of T is
\* space, tab, newline and carriage return.
C1_SubstringSearch ==
    (Searched /\ IsSubstring(search_text, PageText)) =>
        /\ Blank(search_text) => result = None
        /\ ~Blank(search_text) =>
              /\ result.kind = "str"
              /\ result.text # <<>>
              /\ IsSubstring(result.text, PageText)
        /\ (search_text # <<>> /\ NoSpace(search_text) /\ OnlyWalkSpace(PageText))
              => result = Some(search_text)

C1_Witness ==
    /\ Searched
    /\ IsSubstring(search_text, PageText)
    /\ Len(search_text) = 2 /\ NoSpace(search_text)
    /\ WalkSpace(PageText[1])
    /\ result = Some(search_text)

\* C2: a returned string is a contiguous substring of the raw text of the
\* page numbered page_number, and a candidate that does not occur on that
\* page is not found even when another page holds it verbatim.
C2_ResultFromRequestedPage ==
    pc = "done" =>
        /\ result.kind = "str" =>
              /\ HasPage(pages, page_number)
              /\ IsSubstring(result.text, PageText)
        /\ (HasPage(pages, page_number)
              /\ ~IsSubstring(normalize(search_text), normalize(PageText)))
              => result = None

C2_Witness ==
    /\ Searched
    /\ ~Blank(search_text)
    /\ \E i \in 1..Len(pages) :
          /\ pages[i].number # page_number
          /\ IsSubstring(search_text, pages[i].text)
    /\ ~IsSubstring(normalize(search_text), normalize(PageText))
    /\ result = None

\* C3: when normalize(candidate) is non-empty and occurs in normalize(page
\* text) the search succeeds with a string r such that normalize(r) =
\* normalize(candidate); otherwise the result is not-found.
C3_FoundSpanNormalizesToCandidate ==
    Searched =>
        IF normalize(search_text) # <<>>
           /\ IsSubstring(normalize(search_text), normalize(PageText))
        THEN /\ result.kind = "str"
             /\ normalize(result.text) = normalize(search_text)
        ELSE result = None

\* C4: the search returns None for an empty or whitespace-only candidate
\* and for a page number no page carries, and in every case the result is
\* None or a string (no exception escapes).
C4_NotFoundIsNone ==
    pc = "done" =>
        /\ result.kind \in {"None", "str"}
        /\ Blank(search_text) => result = None
        /\ ~HasPage(pages, page_number) => result = None

C4_Witness ==
    /\ Searched
    /\ search_text # <<>> /\ Blank(search_text)
    /\ PageText # <<>> /\ Blank(PageText)
    /\ result = None

(***************************************************************************)
(* Search-constrained fields: step 6 of _classify_and_write                *)
(* An optional key of a dict is a sequence of length 0 (absent) or 1.      *)
(***************************************************************************)
\* `if verbatim:` -- a non-empty string
Truthy(r) == r.kind = "str" /\ r.text # <<>>

\* normalize_search_fields: flatten {search_text, page} to the string
normalize_search_fields(res) ==
    [document_title |-> res.document_title.search_text,
     document_title_verified |-> <<>>,
     document_title_proposed_value |-> <<>>,
     causes_of_action |->
        [i \in 1..Len(res.causes_of_action) |->
            [title |-> res.causes_of_action[i].search_text,
             title_verified |-> <<>>,
             title_proposed_value |-> <<>>,
             page |-> res.causes_of_action[i].page]]]

\* body of the loop `for coa in result.get("causes_of_action", [])`
VerifyCoa(coa, pgs) ==
    IF coa.search_text # <<>> /\ coa.page > 0
    THEN LET verbatim == search_source_text(coa.search_text, coa.page, pgs)
         IN  IF Truthy(verbatim)
             THEN [title |-> verbatim.text, title_verified |-> <<TRUE>>,
                   title_proposed_value |-> <<>>, page |-> coa.page]
             ELSE [title |-> coa.search_text, title_verified |-> <<FALSE>>,
                   title_proposed_value |-> <<coa.search_text>>, page |-> coa.page]
    ELSE [title |-> coa.search_text, title_verified |-> <<>>,
          title_proposed_value |-> <<>>, page |-> coa.page]

\* faulty variant: the first field whose search fails ends the verification;
\* later cause-of-action titles are written as proposed, unsearched
verify_search_fields_StopsAtFailure(res, pgs) ==
    LET dt == res.document_title
        verbatim == search_source_text(dt.search_text, dt.page, pgs)
        dtFailed == dt.search_text # <<>> /\ ~Truthy(verbatim)
        coas == res.causes_of_action
        Failed(i) == VerifyCoa(coas[i], pgs).title_verified = <<FALSE>>
        Blocked(i) == dtFailed \/ \E j \in 1..(i - 1) : Failed(j)
    IN  [document_title |->
            IF dt.search_text # <<>> /\ Truthy(verbatim)
            THEN verbatim.text ELSE dt.search_text,
         document_title_verified |->
            IF dt.search_text = <<>> THEN <<>> ELSE <<Truthy(verbatim)>>,
         document_title_proposed_value |->
            IF dtFailed THEN <<dt.search_text>> ELSE <<>>,
         causes_of_action |->
            [i \in 1..Len(coas) |->
                IF Blocked(i)
                THEN [title |-> coas[i].search_text, title_verified |-> <<>>,
                      title_proposed_value |-> <<>>, page |-> coas[i].page]
                ELSE VerifyCoa(coas[i], pgs)]]

\* faulty variant: a field whose search ran is marked verified whether or
\* not the search found it
verify_search_fields_AlwaysVerified(res, pgs) ==
    LET dt == res.document_title
        verbatim == search_source_text(dt.search_text, dt.page, pgs)
        coas == res.causes_of_action
    IN  [document_title |->
            IF dt.search_text # <<>> /\ Truthy(verbatim)
            THEN verbatim.text ELSE dt.search_text,
         document_title_verified |->
            IF dt.search_text = <<>> THEN <<>> ELSE <<TRUE>>,
         document_title_proposed_value |-> <<>>,
         causes_of_action |->
            [i \in 1..Len(coas) |->
                LET v == VerifyCoa(coas[i], pgs)
                IN  IF v.title_verified = <<FALSE>>
                    THEN [v EXCEPT !.title_verified = <<TRUE>>,
                                   !.title_proposed_value = <<>>]
                    ELSE v]]

\* verify_search_fields: search every constrained field on its page
\* (search_source_text returns None or a string and does not raise)
verify_search_fields(res, pgs) ==
    LET dt == res.document_title
        verbatim == search_source_text(dt.search_text, dt.page, pgs)
    IN  [document_title |->
            IF dt.search_text # <<>> /\ Truthy(verbatim)
            THEN verbatim.text ELSE dt.search_text,
         document_title_verified |->
            IF dt.search_text = <<>> THEN <<>> ELSE <<Truthy(verbatim)>>,
         document_title_proposed_value |->
            IF dt.search_text # <<>> /\ ~Truthy(verbatim)
            THEN <<dt.search_text>> ELSE <<>>,
         causes_of_action |->
            [i \in 1..Len(res.causes_of_action) |->
                VerifyCoa(res.causes_of_action[i], pgs)]]

(***************************************************************************)
(* Specification of the classification pipeline around step 6.  The page   *)
(* texts and the proposer's candidate texts are drawn from small sets that *)
(* hold an exact match, a match up to whitespace, a miss and a page with a *)
(* form feed.                                                              *)
(***************************************************************************)
SourceTexts   == {<<>>, <<"a", "\n", "b">>, <<"\f", "b">>}
ProposedTexts == {<<>>, <<"a", " ", "b">>, <<"b">>}

FieldPageStores ==
    {<<[number |-> n1, text |-> t1], [number |-> n2, text |-> t2]>> :
        <<n1, n2, t1, t2>> \in
            {q \in (1..MaxPageNum) \X (1..MaxPageNum)
                     \X SourceTexts \X SourceTexts : q[1] < q[2]}}

\* page 0 of a cause of action: the default of coa.get("page", 0)
TitleCandidates == [search_text : ProposedTexts, page : 1..MaxPageNum]
CoaCandidates   == [search_text : ProposedTexts, page : 0..MaxPageNum]

LlmResults ==
    [document_title : TitleCandidates,
     causes_of_action : UNION {[1..k -> CoaCandidates] : k \in 0..MaxCoa}]

InitClassify ==
    /\ pc = "idle"
    /\ pages \in FieldPageStores
    /\ verify \in BOOLEAN
    /\ llm_result = NoLlmResult
    /\ out = NoOutput
    /\ search_text = <<>>
    /\ page_number = 0
    /\ result = None
    /\ MergeIdle
    /\ AuxIdle

\* _classify_and_write, steps 3 and 6: the service's answer is any result
ClassifyAndWrite ==
    /\ pc = "idle"
    /\ \E res \in LlmResults :
        /\ llm_result' = res
        /\ out' = IF verify THEN verify_search_fields(res, pages)
                            ELSE normalize_search_fields(res)
    /\ pc' = "done"
    /\ UNCHANGED <<pages, verify, searchVars, mergeVars, auxVars>>

NextClassify == ClassifyAndWrite

SpecClassify == InitClassify /\ [][NextClassify]_vars

(***************************************************************************)
(* Properties of the search-constrained fields                             *)
(***************************************************************************)
\* the text of the page numbered p, when there is one
TextOf(p) ==
    LET i == CHOOSE k \in 1..Len(pages) : pages[k].number = p
    IN  pages[i].text

\* normalize(candidate) is non-empty and occurs in normalize(text of page p)
PresentOn(cand, p) ==
    /\ HasPage(pages, p)
    /\ normalize(cand) # <<>>
    /\ IsSubstring(normalize(cand), normalize(TextOf(p)))

\* what one field must look like given only its own candidate
FieldVerdict(cand, p, value, flag) ==
    LET r == search_source_text(cand, p, pages)
    IN  IF r.kind = "str"
        THEN value = r.text /\ flag = <<TRUE>>
        ELSE value = cand /\ flag = <<FALSE>>

Coas == llm_result.causes_of_action

C6_TitlesPresentOrFlagged ==
    pc = "done" =>
        /\ (llm_result.document_title.search_text # <<>>
              /\ ~PresentOn(llm_result.document_title.search_text,
                            llm_result.document_title.page))
              => out.document_title_verified = <<FALSE>>
        /\ \A i \in 1..Len(out.causes_of_action) :
              (Coas[i].search_text # <<>> /\ Coas[i].page > 0
                /\ ~PresentOn(Coas[i].search_text, Coas[i].page))
              => out.causes_of_action[i].title_verified = <<FALSE>>

\* C6 (amended): with verification on, a title is marked verified only when
\* its candidate is present (after normalization) on the page the proposer
\* named, and the value is then a contiguous substring of that page's text;
\* a searched title that is not present is written as proposed and flagged
\* unverified.  With verification off (the default), and for a cause of
\* action without a positive page, the proposed text is written unchanged
\* and carries no verification flag.
C6_VerifiedOnlyIfPresent ==
    pc = "done" =>
        /\ verify =>
            /\ out.document_title_verified = <<TRUE>> =>
                  /\ PresentOn(llm_result.document_title.search_text,
                               llm_result.document_title.page)
                  /\ IsSubstring(out.document_title,
                                 TextOf(llm_result.document_title.page))
            /\ (llm_result.document_title.search_text # <<>>
                  /\ ~PresentOn(llm_result.document_title.search_text,
                                llm_result.document_title.page))
                  => /\ out.document_title_verified = <<FALSE>>
                     /\ out.document_title = llm_result.document_title.search_text
            /\ \A i \in 1..Len(out.causes_of_action) :
                  /\ out.causes_of_action[i].title_verified = <<TRUE>> =>
                        /\ PresentOn(Coas[i].search_text, Coas[i].page)
                        /\ IsSubstring(out.causes_of_action[i].title,
                                       TextOf(Coas[i].page))
                  /\ (Coas[i].search_text # <<>> /\ Coas[i].page > 0
                        /\ ~PresentOn(Coas[i].search_text, Coas[i].page))
                        => /\ out.causes_of_action[i].title_verified = <<FALSE>>
                           /\ out.causes_of_action[i].title = Coas[i].search_text
                  /\ Coas[i].page = 0 =>
                        /\ out.causes_of_action[i].title_verified = <<>>
                        /\ out.causes_of_action[i].title = Coas[i].search_text
        /\ ~verify =>
            /\ out.document_title = llm_result.document_title.search_text
            /\ out.document_title_verified = <<>>
            /\ \A i \in 1..Len(out.causes_of_action) :
                  /\ out.causes_of_action[i].title = Coas[i].search_text
                  /\ out.causes_of_action[i].title_verified = <<>>

\* a fabricated cause-of-action title is caught, a present one is accepted
C6_Witness ==
    /\ pc = "done" /\ verify
    /\ Len(Coas) = 2
    /\ ~PresentOn(Coas[1].search_text, Coas[1].page)
    /\ out.causes_of_action[1].title_verified = <<FALSE>>
    /\ PresentOn(Coas[2].search_text, Coas[2].page)
    /\ out.causes_of_action[2].title_verified = <<TRUE>>

(***************************************************************************)
(* merge_footnotes.py.  A line is a sequence of tokens separated by        *)
(* whitespace; a whole document is a sequence of lines.                    *)
(*   W(x)     a word of plain text                                         *)
(*   R(n)     the marker $ ^{n} $ together with the whitespace before it   *)
(*   Pad      extra trailing whitespace (two or more characters)           *)
(*   FN(n,t)  the annotation " [FNn: t]" written by the merge              *)
(*   Start(p), End(p)  the page delimiter lines                            *)
(***************************************************************************)
W(x)     == [k |-> "w",     n |-> 0, s |-> x,  t |-> <<>>]
R(n)     == [k |-> "ref",   n |-> n, s |-> "", t |-> <<>>]
Pad      == [k |-> "pad",   n |-> 0, s |-> "", t |-> <<>>]
FN(n, t) == [k |-> "fn",    n |-> n, s |-> "", t |-> t]
Start(p) == [k |-> "start", n |-> p, s |-> "", t |-> <<>>]
End(p)   == [k |-> "end",   n |-> p, s |-> "", t |-> <<>>]

Min(S) == CHOOSE x \in S : \A y \in S : x <= y

\* a local name: value is computed once and handed to Body
Bind(value, Body(_)) == CHOOSE r \in {Body(v) : v \in {value}} : TRUE

\* sorted(...) of a set of integers
RECURSIVE sorted(_)
sorted(S) == IF S = {} THEN <<>> ELSE <<Min(S)>> \o sorted(S \ {Min(S)})

\* dict.get(key, default)
Get(d, key, default) == IF key \in DOMAIN d THEN d[key] ELSE default

\* FN_MARKER_RE.finditer(line): the numbers of the markers in a line, the
\* marker that opens a text block line included
MarkerNums(line) == {line[i].n : i \in {j \in 1..Len(line) : line[j].k = "ref"}}

\* line.strip() == ""
IsBlankLine(line) == \A i \in 1..Len(line) : line[i].k = "pad"

\* m.group(2).strip() of FN_TEXT_BLOCK_RE
RECURSIVE StripPad(_)
StripPad(toks) ==
    IF toks # <<>> /\ Head(toks).k = "pad" THEN StripPad(Tail(toks))
    ELSE IF toks # <<>> /\ toks[Len(toks)].k = "pad"
         THEN StripPad(SubSeq(toks, 1, Len(toks) - 1))
    ELSE toks

\* FN_TEXT_BLOCK_RE.match(line): a marker at the start of the line, then
\* whitespace, then at least one more character
IsTextBlock(line) == Len(line) >= 2 /\ line[1].k = "ref"
BlockNum(line)    == line[1].n
BlockText(line)   == StripPad(Tail(line))

\* PAGE_START_RE / PAGE_END_RE
IsStart(line) == Len(line) = 1 /\ line[1].k = "start"
IsEnd(line)   == Len(line) = 1 /\ line[1].k = "end"

\* extract_ocr_footnotes: {fn_number: fn_text}, a later line overwrites
extract_ocr_footnotes(lines) ==
    LET idx(n) == {i \in 1..Len(lines) :
                      IsTextBlock(lines[i]) /\ BlockNum(lines[i]) = n}
        nums   == {BlockNum(lines[i]) :
                      i \in {j \in 1..Len(lines) : IsTextBlock(lines[j])}}
    IN  [n \in nums |->
            BlockText(lines[CHOOSE i \in idx(n) : \A j \in idx(n) : j <= i])]

\* split_into_pages: the loop over all_lines, from line i on
RECURSIVE SplitFrom(_, _, _, _, _, _, _)
SplitFrom(all_lines, i, preamble, blocks, current_page, current_start, current_lines) ==
    IF i > Len(all_lines) THEN [preamble |-> preamble, blocks |-> blocks]
    ELSE LET line == all_lines[i] IN
         IF IsStart(line)
         THEN SplitFrom(all_lines, i + 1, preamble, blocks,
                        <<line[1].n>>, line, <<>>)
         ELSE IF IsEnd(line)
         THEN SplitFrom(all_lines, i + 1, preamble,
                        IF current_page # <<>>
                        THEN Append(blocks,
                                [page_number |-> current_page[1],
                                 start_delim |-> current_start,
                                 lines |-> current_lines,
                                 end_delim |-> line])
                        ELSE blocks,
                        <<>>, current_start, <<>>)
         ELSE IF current_page # <<>>
         THEN SplitFrom(all_lines, i + 1, preamble, blocks,
                        current_page, current_start, Append(current_lines, line))
         ELSE SplitFrom(all_lines, i + 1, Append(preamble, line), blocks,
                        current_page, current_start, current_lines)

split_into_pages(content_lines) ==
    SplitFrom(content_lines, 1, <<>>, <<>>, <<>>, <<>>, <<>>)

\* the lines of a sequence at the positions of keep, in order
RECURSIVE KeepLines(_, _, _)
KeepLines(lines, keep, i) ==
    IF i > Len(lines) THEN <<>>
    ELSE (IF i \in keep THEN <<lines[i]>> ELSE <<>>) \o KeepLines(lines, keep, i + 1)

\* remove_fn_text_blocks
remove_fn_text_blocks(lines, fn_numbers_to_remove) ==
    LET fn_line_indices ==
            {i \in 1..Len(lines) :
                IsTextBlock(lines[i]) /\ BlockNum(lines[i]) \in fn_numbers_to_remove}
        after(i)  == {j \in (i + 1)..Len(lines) : ~IsBlankLine(lines[j])}
        before(i) == {j \in 1..(i - 1) : ~IsBlankLine(lines[j])}
        next_in(i) == after(i) # {} /\ Min(after(i)) \in fn_line_indices
        prev_in(i) == before(i) # {}
                      /\ (CHOOSE j \in before(i) : \A m \in before(i) : m <= j)
                            \in fn_line_indices
        keep == {i \in 1..Len(lines) :
                    /\ i \notin fn_line_indices
                    /\ ~(IsBlankLine(lines[i]) /\ (next_in(i) \/ prev_in(i)))}
    IN  IF fn_line_indices = {} THEN lines ELSE KeepLines(lines, keep, 1)

\* faulty variant: a number that has an entry is annotated even when its
\* text is empty
replace_ref_EmptyAnnotation(tok, fn_data) ==
    IF tok.k = "ref" /\ tok.n \in DOMAIN fn_data
    THEN FN(tok.n, fn_data[tok.n].fn_text)
    ELSE tok

\* replace_ref of merge_refs_inline, applied to one token
replace_ref(tok, fn_data) ==
    IF tok.k = "ref" /\ tok.n \in DOMAIN fn_data /\ fn_data[tok.n].fn_text # <<>>
    THEN FN(tok.n, fn_data[tok.n].fn_text)
    ELSE tok

\* merge_refs_inline
merge_refs_inline(lines, fn_data) ==
    [i \in 1..Len(lines) |->
        [j \in 1..Len(lines[i]) |-> replace_ref(lines[i][j], fn_data)]]

(***************************************************************************)
(* process_document                                                        *)
(***************************************************************************)
\* "\n".join(lines) seen as lines again: joining no line gives one empty line
JoinLines(lines) == IF lines = <<>> THEN <<(<<>>)>> ELSE lines

\* pre-scan 1: fn_number -> set of page numbers carrying a marker for it
MarkerPages(blocks) ==
    LET on(n) == {blocks[b].page_number :
                    b \in {c \in 1..Len(blocks) :
                        \E i \in 1..Len(blocks[c].lines) :
                            n \in MarkerNums(blocks[c].lines[i])}}
        nums  == UNION {UNION {MarkerNums(blocks[b].lines[i]) :
                                  i \in 1..Len(blocks[b].lines)} :
                        b \in 1..Len(blocks)}
    IN  [n \in nums |-> on(n)]

\* faulty variant: the first text found for a number is kept
RECURSIVE OcrTexts_FirstWins(_, _)
OcrTexts_FirstWins(blocks, b) ==
    IF b = 0 THEN <<>>
    ELSE LET earlier  == OcrTexts_FirstWins(blocks, b - 1)
             page_ocr == extract_ocr_footnotes(blocks[b].lines)
         IN  [n \in DOMAIN earlier \cup DOMAIN page_ocr |->
                IF n \in DOMAIN earlier THEN earlier[n] ELSE page_ocr[n]]

\* pre-scan 2: fn_number -> text, blocks in document order, later overwrites
RECURSIVE OcrTexts(_, _)
OcrTexts(blocks, b) ==
    IF b = 0 THEN <<>>
    ELSE LET earlier  == OcrTexts(blocks, b - 1)
             page_ocr == extract_ocr_footnotes(blocks[b].lines)
         IN  [n \in DOMAIN earlier \cup DOMAIN page_ocr |->
                IF n \in DOMAIN page_ocr THEN page_ocr[n] ELSE earlier[n]]

\* faulty variant: the record is moved to the last page carrying a marker
CorrectPages_LatestPage(fns, marker_pages) ==
    [n \in DOMAIN fns |->
        IF n \in DOMAIN marker_pages /\ fns[n].page \notin marker_pages[n]
        THEN [fns[n] EXCEPT
                !.page = CHOOSE x \in marker_pages[n] :
                            \A y \in marker_pages[n] : y <= x,
                !._original_page = <<fns[n].page>>]
        ELSE fns[n]]

\* correction of the page attribution, done in place on classification_fns
CorrectPages(fns, marker_pages) ==
    [n \in DOMAIN fns |->
        IF n \in DOMAIN marker_pages /\ fns[n].page \notin marker_pages[n]
        THEN [fns[n] EXCEPT !.page = Min(marker_pages[n]),
                            !._original_page = <<fns[n].page>>]
        ELSE fns[n]]

\* faulty variant: a footnote without scanned text takes the text of its
\* location record
PageFns_FallsBackToLlmText(block, fns, ocr_texts) ==
    IF fns # <<>>
    THEN [n \in {m \in DOMAIN fns : fns[m].page = block.page_number} |->
            [fn_text |-> IF Get(ocr_texts, n, <<>>) # <<>>
                         THEN ocr_texts[n] ELSE fns[n]._llm_text,
             _llm_text |-> fns[n]._llm_text]]
    ELSE LET page_ocr == extract_ocr_footnotes(block.lines)
         IN  [n \in DOMAIN page_ocr |->
                [fn_text |-> page_ocr[n], _llm_text |-> <<>>]]

\* faulty variant: a footnote without scanned text is left out of the page
PageFns_SkipsMissingText(block, fns, ocr_texts) ==
    IF fns # <<>>
    THEN [n \in {m \in DOMAIN fns : fns[m].page = block.page_number
                                    /\ Get(ocr_texts, m, <<>>) # <<>>} |->
            [fn_text |-> ocr_texts[n], _llm_text |-> fns[n]._llm_text]]
    ELSE LET page_ocr == extract_ocr_footnotes(block.lines)
         IN  [n \in DOMAIN page_ocr |->
                [fn_text |-> page_ocr[n], _llm_text |-> <<>>]]

\* faulty variant: with location records the numbers that have a text block
\* on the page are applicable as well
PageFns_AlsoBlocksOnPage(block, fns, ocr_texts) ==
    LET page_ocr == extract_ocr_footnotes(block.lines)
    IN  IF fns # <<>>
        THEN [n \in {m \in DOMAIN fns : fns[m].page = block.page_number}
                        \cup DOMAIN page_ocr |->
                [fn_text |-> Get(ocr_texts, n, <<>>),
                 _llm_text |-> IF n \in DOMAIN fns THEN fns[n]._llm_text ELSE <<>>]]
        ELSE [n \in DOMAIN page_ocr |->
                [fn_text |-> page_ocr[n], _llm_text |-> <<>>]]

\* which footnotes are on this page: {num: {fn_text, ...}}
PageFns(block, fns, ocr_texts) ==
    IF fns # <<>>
    THEN [n \in {m \in DOMAIN fns : fns[m].page = block.page_number} |->
            [fn_text |-> Get(ocr_texts, n, <<>>),
             _llm_text |-> fns[n]._llm_text]]
    ELSE LET page_ocr == extract_ocr_footnotes(block.lines)
         IN  [n \in DOMAIN page_ocr |->
                [fn_text |-> page_ocr[n], _llm_text |-> <<>>]]

\* faulty variant: every marker on the page counts as a merged reference,
\* whether or not its number is one of the page's footnotes
ProcessPage_CountsAllMarkers(block, fns, ocr_texts) ==
    Bind(PageFns(block, fns, ocr_texts), LAMBDA page_fns :
    Bind(UNION {MarkerNums(block.lines[i]) : i \in 1..Len(block.lines)},
         LAMBDA refs_on_page :
        LET lines     == block.lines
            cleaned   == remove_fn_text_blocks(lines, DOMAIN page_fns)
            unmatched == (DOMAIN page_fns) \ refs_on_page
            no_ocr    == {n \in DOMAIN page_fns : page_fns[n].fn_text = <<>>}
        IN  [found     |-> Cardinality(DOMAIN page_fns),
             merged    |-> IF page_fns # <<>>
                           THEN merge_refs_inline(cleaned, page_fns) ELSE lines,
             n_merged  |-> IF page_fns # <<>> THEN Cardinality(refs_on_page) ELSE 0,
             n_unmatched |-> Cardinality(unmatched),
             n_no_ocr  |-> IF fns # <<>> THEN Cardinality(no_ocr) ELSE 0,
             detail    |-> IF page_fns # <<>>
                           THEN <<[page |-> block.page_number,
                                   fn_numbers |-> sorted(DOMAIN page_fns),
                                   merged_refs |-> sorted(refs_on_page),
                                   unmatched |-> sorted(unmatched),
                                   no_ocr_text |-> sorted(no_ocr)]>>
                           ELSE <<>>]))

\* the body of `for block in blocks`
ProcessPage(block, fns, ocr_texts) ==
    Bind(PageFns(block, fns, ocr_texts), LAMBDA page_fns :
    Bind({n \in DOMAIN page_fns :
            \E i \in 1..Len(block.lines) : n \in MarkerNums(block.lines[i])},
         LAMBDA refs_on_page :
        LET lines     == block.lines
            cleaned   == remove_fn_text_blocks(lines, DOMAIN page_fns)
            unmatched == (DOMAIN page_fns) \ refs_on_page
            no_ocr    == {n \in DOMAIN page_fns : page_fns[n].fn_text = <<>>}
        IN  [found     |-> Cardinality(DOMAIN page_fns),
             merged    |-> IF page_fns # <<>>
                           THEN merge_refs_inline(cleaned, page_fns) ELSE lines,
             n_merged  |-> Cardinality(refs_on_page),
             n_unmatched |-> Cardinality(unmatched),
             n_no_ocr  |-> IF fns # <<>> THEN Cardinality(no_ocr) ELSE 0,
             detail    |-> IF page_fns # <<>>
                           THEN <<[page |-> block.page_number,
                                   fn_numbers |-> sorted(DOMAIN page_fns),
                                   merged_refs |-> sorted(refs_on_page),
                                   unmatched |-> sorted(unmatched),
                                   no_ocr_text |-> sorted(no_ocr)]>>
                           ELSE <<>>]))

RECURSIVE SumOver(_, _, _)
SumOver(rs, field, i) ==
    IF i > Len(rs) THEN 0 ELSE rs[i][field] + SumOver(rs, field, i + 1)

\* faulty variant: the entries are collected in reverse order of the blocks
RECURSIVE Details_Reversed(_, _)
Details_Reversed(rs, i) ==
    IF i > Len(rs) THEN <<>> ELSE Details_Reversed(rs, i + 1) \o rs[i].detail

\* page_stats: one entry appended per block with footnotes, in block order
RECURSIVE Details(_, _)
Details(rs, i) ==
    IF i > Len(rs) THEN <<>> ELSE rs[i].detail \o Details(rs, i + 1)

\* output_parts joined: delimiter, merged lines, delimiter for every block
RECURSIVE Reassemble(_, _, _)
Reassemble(blocks, rs, i) ==
    IF i > Len(blocks) THEN <<>>
    ELSE <<blocks[i].start_delim>> \o JoinLines(rs[i].merged)
            \o <<blocks[i].end_delim>> \o Reassemble(blocks, rs, i + 1)

\* process_document(content, classification_fns): the merged content, the
\* statistics, and classification_fns as the call leaves it.  None and the
\* empty dict are both the empty function: both are falsy.
process_document(content_lines, fns) ==
    Bind(split_into_pages(content_lines), LAMBDA split :
    Bind(MarkerPages(split.blocks), LAMBDA marker_pages :
    Bind(OcrTexts(split.blocks, Len(split.blocks)), LAMBDA ocr_texts :
    Bind(CorrectPages(fns, marker_pages), LAMBDA corrected :
    Bind([b \in 1..Len(split.blocks) |->
            ProcessPage(split.blocks[b], corrected, ocr_texts)], LAMBDA rs :
    Bind(Details(rs, 1), LAMBDA page_stats :
        [merged_content |-> split.preamble \o Reassemble(split.blocks, rs, 1),
         stats |-> [source |-> IF fns # <<>> THEN "classification+ocr"
                                             ELSE "ocr_only",
                    total_found |-> SumOver(rs, "found", 1),
                    total_merged |-> SumOver(rs, "n_merged", 1),
                    total_unmatched |-> SumOver(rs, "n_unmatched", 1),
                    total_no_ocr_text |-> SumOver(rs, "n_no_ocr", 1),
                    pages_with_footnotes |-> Len(page_stats),
                    page_details |-> page_stats],
         classification_fns |-> corrected,
         ocr_texts |-> ocr_texts]))))))

(***************************************************************************)
(* Specification of the merge: a combined document of page blocks, then    *)
(* one call of process_document with any location inventory                *)
(***************************************************************************)
FnNums == 1..MaxFn

\* the lines a page is made of: blank, body text with an inline reference, a footnote text block (two different texts), and a text block
\* whose body is whitespace only
LineVocab ==
    {<<>>}
        \cup {<<W("p"), R(n)>> : n \in FnNums}
        \cup {<<R(n), W(x)>> : n \in FnNums, x \in {"x", "y"}}
        \cup {<<R(n), Pad>> : n \in FnNums}

\* page blocks in any order of page numbers, MaxDocLines lines in all
BlocksUpTo(m) ==
    [page_number : 1..MaxPage, lines : UNION {[1..k -> LineVocab] : k \in 0..m}]

RECURSIVE LayoutsOf(_, _)
LayoutsOf(nb, budget) ==
    IF nb = 0 THEN {<<>>}
    ELSE UNION {{<<blk>> \o rest :
                    rest \in LayoutsOf(nb - 1, budget - Len(blk.lines))} :
                blk \in BlocksUpTo(budget)}

Layouts == UNION {LayoutsOf(k, MaxDocLines) : k \in 0..MaxBlocks}

\* the text of the .md file: every block between its two delimiter lines
RECURSIVE Render(_)
Render(bs) ==
    IF bs = <<>> THEN <<>>
    ELSE <<(<<Start(Head(bs).page_number)>>)>> \o Head(bs).lines
            \o <<(<<End(Head(bs).page_number)>>)>> \o Render(Tail(bs))

Documents == {Render(bs) : bs \in Layouts}

\* _extract_fn_inventory: fn_number -> location record; page 0 is the
\* default of a record without page_number
LlmTexts == {<<>>, <<W("z")>>}

Inventories ==
    UNION {[D -> [page : 0..MaxPage, _llm_text : {txt}, _original_page : {<<>>}]] :
            <<D, txt>> \in (SUBSET FnNums) \X LlmTexts}

InitMerge ==
    /\ pc = "idle"
    /\ content \in Documents
    /\ inventory = <<>>
    /\ classification_fns = <<>>
    /\ merged_content = <<>>
    /\ stats = NoStats
    /\ all_ocr_texts = <<>>
    /\ pages = <<>>
    /\ search_text = <<>>
    /\ page_number = 0
    /\ result = None
    /\ ClassifyIdle
    /\ AuxIdle

ProcessDocument ==
    /\ pc = "idle"
    /\ \E fns \in Inventories :
        LET r == process_document(content, fns)
        IN  /\ inventory' = fns
            /\ classification_fns' = r.classification_fns
            /\ merged_content' = r.merged_content
            /\ stats' = r.stats
            /\ all_ocr_texts' = r.ocr_texts
    /\ pc' = "done"
    /\ UNCHANGED <<content, pages, searchVars, classifyVars, auxVars>>

NextMerge == ProcessDocument

SpecMerge == InitMerge /\ [][NextMerge]_vars

(***************************************************************************)
(* Properties of process_document                                          *)
(***************************************************************************)
InBlocks  == split_into_pages(content).blocks
OutBlocks == split_into_pages(merged_content).blocks

\* token j of line i of a block is the marker of footnote n
IsMarkerAt(block, i, j, n) == block.lines[i][j] = R(n)

\* ... and it is an inline reference, not the marker that opens a text block
IsInlineRefAt(block, i, j, n) ==
    IsMarkerAt(block, i, j, n) /\ ~(j = 1 /\ IsTextBlock(block.lines[i]))

Positions(block) ==
    UNION {{<<i, j>> : j \in 1..Len(block.lines[i])} : i \in 1..Len(block.lines)}

HasInlineRef(block, n) == \E q \in Positions(block) : IsInlineRefAt(block, q[1], q[2], n)
HasMarker(block, n)    == \E q \in Positions(block) : IsMarkerAt(block, q[1], q[2], n)
HasTextBlock(block, n) ==
    \E i \in 1..Len(block.lines) :
        IsTextBlock(block.lines[i]) /\ BlockNum(block.lines[i]) = n
HasAnnotation(block, n) ==
    \E q \in Positions(block) : block.lines[q[1]][q[2]].k = "fn"
                                  /\ block.lines[q[1]][q[2]].n = n

\* pages on which an inline reference to n occurs / on which any marker of n
\* occurs
InlineRefPages(n) ==
    {InBlocks[b].page_number : b \in {c \in 1..Len(InBlocks) : HasInlineRef(InBlocks[c], n)}}
AnyMarkerPages(n) ==
    {InBlocks[b].page_number : b \in {c \in 1..Len(InBlocks) : HasMarker(InBlocks[c], n)}}

\* C7 (as stated): a location record whose claimed page carries no inline
\* reference to its number is moved to the minimum page carrying one, the
\* claim kept in the audit field; a record whose number has no inline
\* reference anywhere is left unmodified.
C7_CorrectedToEarliestInlineRef ==
    pc = "done" =>
        \A n \in DOMAIN inventory :
            IF InlineRefPages(n) = {}
            THEN classification_fns[n] = inventory[n]
            ELSE inventory[n].page \notin InlineRefPages(n) =>
                    /\ classification_fns[n].page = Min(InlineRefPages(n))
                    /\ classification_fns[n]._original_page = <<inventory[n].page>>

\* C7 (amended): the pages that count are those carrying the marker of the
\* number either as an inline reference or as the marker opening a text
\* block.  A record whose claimed page is not one of them is moved to the
\* minimum such page and the claim is kept in the audit field; a record whose
\* number has no marker anywhere, or whose claimed page carries one, is left
\* unmodified.
C7_CorrectedToEarliestMarker ==
    pc = "done" =>
        /\ DOMAIN classification_fns = DOMAIN inventory
        /\ \A n \in DOMAIN inventory :
            IF AnyMarkerPages(n) = {} \/ inventory[n].page \in AnyMarkerPages(n)
            THEN classification_fns[n] = inventory[n]
            ELSE /\ classification_fns[n].page = Min(AnyMarkerPages(n))
                 /\ classification_fns[n]._original_page = <<inventory[n].page>>
                 /\ classification_fns[n]._llm_text = inventory[n]._llm_text

\* the claim is for a page without a reference, inline references are on two
\* pages: the record moves to the earlier of the two
C7_Witness ==
    /\ pc = "done"
    /\ \E n \in DOMAIN inventory :
        /\ Cardinality(InlineRefPages(n)) = 2
        /\ AnyMarkerPages(n) = InlineRefPages(n)
        /\ inventory[n].page \notin InlineRefPages(n)
        /\ classification_fns[n].page = Min(InlineRefPages(n))
        /\ classification_fns[n]._original_page = <<inventory[n].page>>

\* the texts of the text blocks scanned in the source
ScannedTexts ==
    UNION {{BlockText(InBlocks[b].lines[i]) :
                i \in {j \in 1..Len(InBlocks[b].lines) : IsTextBlock(InBlocks[b].lines[j])}} :
            b \in 1..Len(InBlocks)}

AnnotationTexts ==
    UNION {{OutBlocks[b].lines[q[1]][q[2]].t :
                q \in {r \in Positions(OutBlocks[b]) :
                          OutBlocks[b].lines[r[1]][r[2]].k = "fn"}} :
            b \in 1..Len(OutBlocks)}

\* the inventory with the records' own text blanked
Scrubbed == [n \in DOMAIN inventory |-> [inventory[n] EXCEPT !._llm_text = <<>>]]

\* C8: the run on the same document with the records' own text fields
\* changed gives the same merged content and the same statistics, and every
\* annotation carries the text of a text block scanned in the source.
C8_RecordTextDoesNotInterfere ==
    pc = "done" =>
        /\ merged_content = process_document(content, Scrubbed).merged_content
        /\ stats = process_document(content, Scrubbed).stats
        /\ AnnotationTexts \subseteq ScannedTexts

\* a record with a text of its own, for a number referenced on its page that
\* has no text block anywhere: the reference stays a bare marker
C8_Witness ==
    /\ pc = "done"
    /\ \E n \in DOMAIN inventory :
        /\ inventory[n]._llm_text # <<>>
        /\ \A b \in 1..Len(InBlocks) : ~HasTextBlock(InBlocks[b], n)
        /\ \E b \in 1..Len(InBlocks) :
            /\ InBlocks[b].page_number = classification_fns[n].page
            /\ HasInlineRef(InBlocks[b], n)
            /\ HasInlineRef(OutBlocks[b], n)
            /\ ~HasAnnotation(OutBlocks[b], n)

\* the text of the last text block of n among lines, empty when there is none
LastText(lines, n) ==
    LET idx == {i \in 1..Len(lines) : IsTextBlock(lines[i]) /\ BlockNum(lines[i]) = n}
    IN  IF idx = {} THEN <<>>
        ELSE BlockText(lines[CHOOSE i \in idx : \A j \in idx : j <= i])

RECURSIVE AllLines(_)
AllLines(bs) == IF bs = <<>> THEN <<>> ELSE Head(bs).lines \o AllLines(Tail(bs))

\* the applicable set of page block b and the text resolved for n on it
Applicable(b) ==
    IF inventory # <<>>
    THEN {n \in DOMAIN classification_fns :
            classification_fns[n].page = InBlocks[b].page_number}
    ELSE {n \in FnNums : HasTextBlock(InBlocks[b], n)}

ResolvedText(b, n) ==
    IF inventory # <<>> THEN LastText(AllLines(InBlocks), n)
                        ELSE LastText(InBlocks[b].lines, n)

ExpectedToken(b, tok) ==
    IF tok.k = "ref" /\ tok.n \in Applicable(b) /\ ResolvedText(b, tok.n) # <<>>
    THEN FN(tok.n, ResolvedText(b, tok.n))
    ELSE tok

NonBlank(line) == ~IsBlankLine(line)

\* the lines of block b that stay: not blank, not a text block of an
\* applicable number
StayingLines(b) ==
    LET Stays(line) == NonBlank(line)
                       /\ ~(IsTextBlock(line) /\ BlockNum(line) \in Applicable(b))
    IN  SelectSeq(InBlocks[b].lines, Stays)

\* C9: on every page, blank lines aside, the output is the lines that stay,
\* in order, with every marker whose number is applicable and has non-empty
\* resolved text replaced by the annotation of that number and text, and
\* every other token, other markers included, exactly as it was.  Without
\* location records, a page holding an inline reference to a footnote and
\* its text block reports the footnote merged, loses the block and has the
\* reference replaced.
C9_InlineSubstitution ==
    pc = "done" =>
        /\ Len(OutBlocks) = Len(InBlocks)
        /\ \A b \in 1..Len(InBlocks) :
            /\ SelectSeq(OutBlocks[b].lines, NonBlank) =
                    [i \in 1..Len(StayingLines(b)) |->
                        [j \in 1..Len(StayingLines(b)[i]) |->
                            ExpectedToken(b, StayingLines(b)[i][j])]]
            /\ \A n \in FnNums :
                (/\ inventory = <<>>
                 /\ HasInlineRef(InBlocks[b], n)
                 /\ LastText(InBlocks[b].lines, n) # <<>>) =>
                    /\ ~HasTextBlock(OutBlocks[b], n)
                    /\ ~HasMarker(OutBlocks[b], n)
                    /\ \E q \in Positions(OutBlocks[b]) :
                          OutBlocks[b].lines[q[1]][q[2]] =
                              FN(n, LastText(InBlocks[b].lines, n))
                    /\ \E d \in 1..Len(stats.page_details) :
                          /\ stats.page_details[d].page = InBlocks[b].page_number
                          /\ \E k \in 1..Len(stats.page_details[d].merged_refs) :
                                stats.page_details[d].merged_refs[k] = n
                    /\ (Len(InBlocks) = 1 /\ Applicable(b) = {n}) =>
                          /\ stats.total_found = 1
                          /\ stats.total_merged = 1
                          /\ stats.total_unmatched = 0

\* no location records, one page with the inline reference and the text
\* block of the same footnote
C9_Witness ==
    /\ pc = "done"
    /\ inventory = <<>>
    /\ Len(InBlocks) = 1
    /\ \E n \in FnNums :
        /\ HasInlineRef(InBlocks[1], n)
        /\ HasTextBlock(InBlocks[1], n)
        /\ OutBlocks[1].lines = <<(<<W("p"), FN(n, <<W("x")>>)>>)>>
        /\ stats.total_merged = 1

\* C10: without location records, when page 1 holds an inline reference to
\* a footnote and the text block of that footnote is on page 2, the
\* annotation with the extracted text is inserted at the reference on page
\* 1, nowhere on page 2, and the text block is removed from page 2.
C10_TwoPageFallback ==
    (/\ pc = "done"
     /\ inventory = <<>>
     /\ Len(InBlocks) = 2
     /\ InBlocks[1].page_number < InBlocks[2].page_number) =>
        \A n \in FnNums :
            (/\ HasInlineRef(InBlocks[1], n)
             /\ ~HasTextBlock(InBlocks[1], n)
             /\ ~HasInlineRef(InBlocks[2], n)
             /\ LastText(InBlocks[2].lines, n) # <<>>) =>
                /\ \E q \in Positions(OutBlocks[1]) :
                      OutBlocks[1].lines[q[1]][q[2]] =
                          FN(n, LastText(InBlocks[2].lines, n))
                /\ ~HasAnnotation(OutBlocks[2], n)
                /\ ~HasTextBlock(OutBlocks[2], n)

\* x is an element of the list s
InSeq(x, s) == \E k \in 1..Len(s) : s[k] = x

\* the entry of page_details written for block b: the blocks before it with
\* a non-empty applicable set each wrote one entry
DetailOf(b) ==
    stats.page_details[Cardinality({c \in 1..b : Applicable(c) # {}})]

\* C11: in the diagnostics entry of a page, a number of the applicable set
\* is listed as merged exactly when the page body holds an inline reference
\* to it, as unmatched exactly when text was resolved for it and the page
\* holds no inline reference to it (the marker opening a text block is not a
\* reference), and as no-text exactly when no text was resolved for it.
C11_PerPageDiagnostics ==
    pc = "done" =>
        \A b \in 1..Len(InBlocks) : \A n \in Applicable(b) :
            /\ InSeq(n, DetailOf(b).merged_refs) <=> HasInlineRef(InBlocks[b], n)
            /\ InSeq(n, DetailOf(b).unmatched) <=>
                    (ResolvedText(b, n) # <<>> /\ ~HasInlineRef(InBlocks[b], n))
            /\ InSeq(n, DetailOf(b).no_ocr_text) <=> (ResolvedText(b, n) = <<>>)

(***************************************************************************)
(* 13_text_classifier.py, step 8: generate_footnote_index.  An issue is a  *)
(* record in place of the message string:                                  *)
(*   MISSING footnote {num} (gap before fn {ref} on page {page})           *)
(*   OUT OF ORDER: footnote {num} on page {page} (expected {ref})          *)
(*   DUPLICATE: footnote {num} on page {page}                              *)
(* The CSV file written on the way does not influence the issues.          *)
(***************************************************************************)
Issue(kind, num, page, ref) == [kind |-> kind, num |-> num, page |-> page, ref |-> ref]

\* all_footnotes as collected: the footnotes of every page, in page order
RECURSIVE CollectFootnotes(_)
CollectFootnotes(result_pages) ==
    IF result_pages = <<>> THEN <<>>
    ELSE [k \in 1..Len(Head(result_pages).footnotes) |->
              [fn_number |-> Head(result_pages).footnotes[k].fn_number,
               page |-> Head(result_pages).page_number]]
            \o CollectFootnotes(Tail(result_pages))

\* list.sort(key=fn_number) is stable: x goes behind the entries whose
\* number is not larger
RECURSIVE InsertByNumber(_, _)
InsertByNumber(x, s) ==
    IF s = <<>> THEN <<x>>
    ELSE IF Head(s).fn_number <= x.fn_number
         THEN <<Head(s)>> \o InsertByNumber(x, Tail(s))
         ELSE <<x>> \o s

RECURSIVE SortByNumber(_)
SortByNumber(s) ==
    IF s = <<>> THEN <<>>
    ELSE InsertByNumber(s[Len(s)], SortByNumber(SubSeq(s, 1, Len(s) - 1)))

\* faulty variant: seen_numbers is never filled
RECURSIVE Validate_SeenNeverFilled(_, _, _, _)
Validate_SeenNeverFilled(all_footnotes, i, seen_numbers, expected_num) ==
    IF i > Len(all_footnotes) THEN <<>>
    ELSE LET fn  == all_footnotes[i]
             num == fn.fn_number
             gap == IF num > expected_num
                    THEN [m \in 1..(num - expected_num) |->
                            Issue("MISSING", expected_num + m - 1, fn.page, num)]
                    ELSE IF num < expected_num
                    THEN <<Issue("OUT OF ORDER", num, fn.page, expected_num)>>
                    ELSE <<>>
             dup == IF num \in seen_numbers
                    THEN <<Issue("DUPLICATE", num, fn.page, 0)>> ELSE <<>>
         IN  gap \o dup
                \o Validate_SeenNeverFilled(all_footnotes, i + 1, seen_numbers, num + 1)

\* faulty variant: expected_num is counted up by one instead of following
\* the number just seen
RECURSIVE Validate_ExpectedCountsUp(_, _, _, _)
Validate_ExpectedCountsUp(all_footnotes, i, seen_numbers, expected_num) ==
    IF i > Len(all_footnotes) THEN <<>>
    ELSE LET fn  == all_footnotes[i]
             num == fn.fn_number
             gap == IF num > expected_num
                    THEN [m \in 1..(num - expected_num) |->
                            Issue("MISSING", expected_num + m - 1, fn.page, num)]
                    ELSE IF num < expected_num
                    THEN <<Issue("OUT OF ORDER", num, fn.page, expected_num)>>
                    ELSE <<>>
             dup == IF num \in seen_numbers
                    THEN <<Issue("DUPLICATE", num, fn.page, 0)>> ELSE <<>>
         IN  gap \o dup
                \o Validate_ExpectedCountsUp(all_footnotes, i + 1,
                                             seen_numbers \cup {num}, expected_num + 1)

\* the validation loop over the sorted all_footnotes, from entry i on
RECURSIVE Validate(_, _, _, _)
Validate(all_footnotes, i, seen_numbers, expected_num) ==
    IF i > Len(all_footnotes) THEN <<>>
    ELSE LET fn  == all_footnotes[i]
             num == fn.fn_number
             gap == IF num > expected_num
                    THEN [m \in 1..(num - expected_num) |->
                            Issue("MISSING", expected_num + m - 1, fn.page, num)]
                    ELSE IF num < expected_num
                    THEN <<Issue("OUT OF ORDER", num, fn.page, expected_num)>>
                    ELSE <<>>
             dup == IF num \in seen_numbers
                    THEN <<Issue("DUPLICATE", num, fn.page, 0)>> ELSE <<>>
         IN  gap \o dup
                \o Validate(all_footnotes, i + 1, seen_numbers \cup {num}, num + 1)

generate_footnote_index(result_pages) ==
    LET all_footnotes == CollectFootnotes(result_pages)
    IN  IF all_footnotes = <<>> THEN <<>>
        ELSE Validate(SortByNumber(all_footnotes), 1, {}, 1)

(***************************************************************************)
(* Specification of the footnote index: a classification result of two     *)
(* pages, then one call of generate_footnote_index                         *)
(***************************************************************************)
\* fn_number 0 is the default of a footnote without fn_number
IdxNums == (0 - 1)..MaxIdxNum

FootnoteLists == UNION {[1..k -> [fn_number : IdxNums]] : k \in 0..MaxRecs}

\* the footnotes f of a result, the first c of them on page 1, the others on
\* page 2
ResultPages(f, c) ==
    <<[page_number |-> 1, footnotes |-> SubSeq(f, 1, c)],
      [page_number |-> 2, footnotes |-> SubSeq(f, c + 1, Len(f))]>>

InitIndex ==
    /\ pc = "idle"
    /\ fn_result = <<>>
    /\ issues = <<>>
    /\ pages = <<>>
    /\ search_text = <<>>
    /\ page_number = 0
    /\ result = None
    /\ ClassifyIdle
    /\ MergeIdle
    /\ CoaIdle
    /\ MainIdle
    /\ GuiIdle
    /\ RemoveIdle

\* step 8 of _classify_and_write on any classification result
GenerateFootnoteIndex ==
    /\ pc = "idle"
    /\ \E f \in FootnoteLists : \E c \in 0..Len(f) :
        /\ fn_result' = ResultPages(f, c)
        /\ issues' = generate_footnote_index(ResultPages(f, c))
    /\ pc' = "done"
    /\ UNCHANGED <<pages, searchVars, classifyVars, mergeVars, coaVars, mainVars,
                   guiVars, removeVars>>

NextIndex == GenerateFootnoteIndex

SpecIndex == InitIndex /\ [][NextIndex]_vars

(***************************************************************************)
(* Properties of generate_footnote_index                                   *)
(***************************************************************************)
\* the footnote numbers of the records, and how many records carry n
RecordNums == {CollectFootnotes(fn_result)[k].fn_number :
                  k \in 1..Len(CollectFootnotes(fn_result))}
Carriers(n) == {k \in 1..Len(CollectFootnotes(fn_result)) :
                  CollectFootnotes(fn_result)[k].fn_number = n}

Max(S) == CHOOSE x \in S : \A y \in S : y <= x

OfKind(kind) == LET Is(i) == i.kind = kind IN SelectSeq(issues, Is)

\* the gap report: the numbers of the MISSING issues, in the order reported
GapReport == [k \in 1..Len(OfKind("MISSING")) |-> OfKind("MISSING")[k].num]

\* C12 (as stated): the gap report lists exactly the integers skipped
\* between the numbers present, each once, ascending.
C12_GapsBetweenNumbersPresent ==
    (pc = "done" /\ RecordNums # {}) =>
        GapReport = sorted({m \in Min(RecordNums)..Max(RecordNums) : m \notin RecordNums})

\* C12 (amended): the walk expects 1 first, so the gap report lists exactly
\* the integers that no record carries from 1 (from the smallest number
\* present, when that is below 1) up to the largest number present, each
\* once, ascending; with {1,2,4,6} it lists 3 then 5 and nothing else; with
\* no record at all nothing is reported.
C12_GapsFromOne ==
    pc = "done" =>
        /\ RecordNums # {} =>
              GapReport = sorted({m \in Min(RecordNums \cup {1})..Max(RecordNums) :
                                      m \notin RecordNums})
        /\ RecordNums = {} => issues = <<>>
        /\ RecordNums = {1, 2, 4, 6} => GapReport = <<3, 5>>

\* the inventory {1,2,4,6}, records in any order: missing 3, then missing 5
C12_Witness ==
    /\ pc = "done"
    /\ RecordNums = {1, 2, 4, 6}
    /\ CollectFootnotes(fn_result)[1].fn_number = 6
    /\ GapReport = <<3, 5>>

\* C13: a number carried by k records gives exactly k - 1 DUPLICATE issues
\* for that number (none when k = 1), and no DUPLICATE issue names a number
\* that no record carries; two records with the same number give exactly one.
C13_DuplicatesCounted ==
    pc = "done" =>
        /\ \A n \in RecordNums :
              Cardinality({k \in 1..Len(OfKind("DUPLICATE")) :
                              OfKind("DUPLICATE")[k].num = n})
                 = Cardinality(Carriers(n)) - 1
        /\ \A k \in 1..Len(OfKind("DUPLICATE")) :
              OfKind("DUPLICATE")[k].num \in RecordNums

\* two records on different pages claim the same number, a third record
\* another: one duplicate report; and a number carried three times: two
C13_Witness ==
    /\ pc = "done"
    /\ \E n \in RecordNums :
          /\ Cardinality(Carriers(n)) = 2
          /\ Cardinality(RecordNums) = 2
          /\ Len(fn_result[1].footnotes) = 1
          /\ Len(OfKind("DUPLICATE")) = 1
          /\ OfKind("DUPLICATE")[1].num = n

(***************************************************************************)
(* merge_footnotes.py: main, with load_classification_footnotes and        *)
(* _extract_fn_inventory.  The classification output is <<>> when neither  *)
(* manifest.json nor a raw JSON file exists and <<pages>> when one does.   *)
(***************************************************************************)
\* the inner loop of _extract_fn_inventory: the footnotes fns of one page
RECURSIVE PutFootnotes(_, _, _)
PutFootnotes(footnotes, fns, pg_num) ==
    IF fns = <<>> THEN footnotes
    ELSE LET fn == Head(fns)
             put == IF fn.fn_number > 0
                    THEN [n \in DOMAIN footnotes \cup {fn.fn_number} |->
                            IF n = fn.fn_number
                            THEN [page |-> pg_num, _llm_text |-> fn.fn_text,
                                  _original_page |-> <<>>]
                            ELSE footnotes[n]]
                    ELSE footnotes
         IN  PutFootnotes(put, Tail(fns), pg_num)

\* the outer loop of _extract_fn_inventory
RECURSIVE ExtractFrom(_, _)
ExtractFrom(footnotes, class_pgs) ==
    IF class_pgs = <<>> THEN footnotes
    ELSE ExtractFrom(PutFootnotes(footnotes, Head(class_pgs).footnotes,
                                  Head(class_pgs).page_number),
                     Tail(class_pgs))

_extract_fn_inventory(class_pgs) == ExtractFrom(<<>>, class_pgs)

\* None (no classification output) and {} are both the empty function
load_classification_footnotes(class_out) ==
    IF class_out = <<>> THEN <<>> ELSE _extract_fn_inventory(class_out[1])

\* the WARNING lines main prints from the statistics
MainWarnings(st) ==
    (IF st.total_no_ocr_text > 0 THEN {"no_ocr_text"} ELSE {})
        \cup (IF st.total_unmatched > 0 THEN {"unmatched"} ELSE {})

\* faulty variant: a dry run stops before the merge is computed
main_DryRunSkipsMerge(exists, doc, class_out, ocr, dry) ==
    IF ~exists
    THEN [content |-> <<>>, class_pages |-> <<>>, inventory |-> <<>>,
          classification_fns |-> <<>>, merged_content |-> <<>>,
          stats |-> NoStats, ocr_texts |-> <<>>, output_file |-> <<>>,
          exit_status |-> "error"]
    ELSE LET fns == IF ocr THEN <<>> ELSE load_classification_footnotes(class_out)
         IN  IF dry
             THEN [content |-> doc, class_pages |-> class_out, inventory |-> fns,
                   classification_fns |-> fns, merged_content |-> doc,
                   stats |-> NoStats, ocr_texts |-> <<>>, output_file |-> <<>>,
                   exit_status |-> "ok"]
             ELSE Bind(process_document(doc, fns), LAMBDA r :
                    [content |-> doc, class_pages |-> class_out, inventory |-> fns,
                     classification_fns |-> r.classification_fns,
                     merged_content |-> r.merged_content,
                     stats |-> r.stats,
                     ocr_texts |-> r.ocr_texts,
                     output_file |-> <<r.merged_content>>,
                     exit_status |-> "ok"])

\* main: what the run reads, computes and writes
main(exists, doc, class_out, ocr, dry) ==
    IF ~exists
    THEN [content |-> <<>>, class_pages |-> <<>>, inventory |-> <<>>,
          classification_fns |-> <<>>, merged_content |-> <<>>,
          stats |-> NoStats, ocr_texts |-> <<>>, output_file |-> <<>>,
          exit_status |-> "error"]
    ELSE LET fns == IF ocr THEN <<>> ELSE load_classification_footnotes(class_out)
         IN  Bind(process_document(doc, fns), LAMBDA r :
                [content |-> doc, class_pages |-> class_out, inventory |-> fns,
                 classification_fns |-> r.classification_fns,
                 merged_content |-> r.merged_content,
                 stats |-> r.stats,
                 ocr_texts |-> r.ocr_texts,
                 output_file |-> IF dry THEN <<>> ELSE <<r.merged_content>>,
                 exit_status |-> "ok"])

(***************************************************************************)
(* Specification of the merge program: the flags and the existence of the  *)
(* input are fixed at the start; the run reads any document of delimiter,  *)
(* body and footnote lines, well delimited or not, and any classification  *)
(* output                                                                  *)
(***************************************************************************)
MainLineVocab ==
    {<<Start(1)>>, <<End(1)>>, <<W("p"), R(1)>>, <<R(1), W("x")>>}

MainDocuments == UNION {[1..k -> MainLineVocab] : k \in 0..MaxMainLines}

\* fn_number 0 is the default of a footnote without fn_number
ClassFootnotes ==
    UNION {[1..k -> [fn_number : 0..MaxFn, fn_text : {<<W("z")>>}]] :
            k \in 0..MaxClassFns}

\* no classification output, or one of two pages in either order
ClassOutputs ==
    {<<>>} \cup
    UNION {UNION {{<<(<<[page_number |-> p, footnotes |-> SubSeq(f, 1, c)],
                        [page_number |-> 3 - p, footnotes |-> SubSeq(f, c + 1, Len(f))]>>)>> :
                      c \in 0..Len(f)} :
                  p \in 1..2} :
           f \in ClassFootnotes}

InitMain ==
    /\ pc = "idle"
    /\ input_exists \in BOOLEAN
    /\ ocr_only \in BOOLEAN
    /\ dry_run \in BOOLEAN
    /\ class_pages = <<>>
    /\ output_file = <<>>
    /\ exit_status = ""
    /\ pages = <<>>
    /\ search_text = <<>>
    /\ page_number = 0
    /\ result = None
    /\ ClassifyIdle
    /\ MergeIdle
    /\ IndexIdle
    /\ CoaIdle
    /\ GuiIdle
    /\ RemoveIdle

Main ==
    /\ pc = "idle"
    /\ \E doc \in (IF input_exists THEN MainDocuments ELSE {<<>>}) :
       \E class_out \in (IF input_exists /\ ~ocr_only THEN ClassOutputs ELSE {<<>>}) :
          LET r == main(input_exists, doc, class_out, ocr_only, dry_run)
          IN  /\ content' = r.content
              /\ class_pages' = r.class_pages
              /\ inventory' = r.inventory
              /\ classification_fns' = r.classification_fns
              /\ merged_content' = r.merged_content
              /\ stats' = r.stats
              /\ all_ocr_texts' = r.ocr_texts
              /\ output_file' = r.output_file
              /\ exit_status' = r.exit_status
    /\ pc' = "done"
    /\ UNCHANGED <<input_exists, ocr_only, dry_run, pages, searchVars,
                   classifyVars, indexVars, coaVars, guiVars, removeVars>>

NextMain == Main

SpecMain == InitMain /\ [][NextMain]_vars

(***************************************************************************)
(* Properties of the merge program                                         *)
(***************************************************************************)
\* the pages on which the classification output lists footnote n
ClaimedPages(n) ==
    IF class_pages = <<>> THEN {}
    ELSE {class_pages[1][i].page_number :
            i \in {j \in 1..Len(class_pages[1]) :
                      \E k \in 1..Len(class_pages[1][j].footnotes) :
                          class_pages[1][j].footnotes[k].fn_number = n}}

\* C14: when the classification output lists the same footnote number on
\* two pages, the merge reports a duplicate or keeps a record for each of
\* the two pages; it does not keep one record and drop the other without a
\* word.
C14_DuplicateNeverSilentlyFixed ==
    (pc = "done" /\ exit_status = "ok" /\ ~ocr_only) =>
        \A n \in FnNums :
            Cardinality(ClaimedPages(n)) >= 2 =>
                \/ "duplicate" \in MainWarnings(stats)
                \/ \A p \in ClaimedPages(n) :
                      n \in DOMAIN inventory /\ inventory[n].page = p

(***************************************************************************)
(* 13_text_classifier.py, step 9: verify_causes_of_action.  A page text is *)
(* a sequence of lines joined by "\n":                                     *)
(*   ParaLine(n)  "n. text"   a numbered paragraph                         *)
(*   BareLine(n)  "n."        the number and the period, nothing behind    *)
(*   TextLine     "text"      no number at the start of the line           *)
(* paragraph_range is <<>> when the candidate has none, else <<range>>.    *)
(***************************************************************************)
ParaLine(n) == [k |-> "para", n |-> n]
BareLine(n) == [k |-> "bare", n |-> n]
TextLine    == [k |-> "text", n |-> 0]

\* PARAGRAPH_NUM_RE.finditer(text): digits and a period at the start of a
\* line, then one whitespace character; the "\n" that joins the lines is
\* one, so a bare line matches unless it is the last line of the text
ParagraphNums(text) ==
    {text[i].n : i \in {j \in 1..Len(text) :
                          \/ text[j].k = "para"
                          \/ text[j].k = "bare" /\ j < Len(text)}}

\* page_paragraphs: page number -> paragraph numbers, pages without any
\* number left out; a later page of the same number overwrites
PageParagraphs(pgs) ==
    LET idx(p) == {i \in 1..Len(pgs) :
                      pgs[i].number = p /\ ParagraphNums(pgs[i].text) # {}}
    IN  [p \in {pgs[i].number :
                  i \in {j \in 1..Len(pgs) : ParagraphNums(pgs[j].text) # {}}} |->
            ParagraphNums(pgs[CHOOSE i \in idx(p) : \A j \in idx(p) : j <= i].text)]

\* faulty variant: only the first page's numbers are pooled
AllParagraphs_FirstPageOnly(pgs) ==
    IF pgs = <<>> THEN {} ELSE ParagraphNums(pgs[1].text)

\* all_paragraphs
AllParagraphs(pgs) ==
    UNION {PageParagraphs(pgs)[p] : p \in DOMAIN PageParagraphs(pgs)}

\* faulty variant: the range is compared as soon as its end is positive
VerifyRange_EndOnly(coa, all_paragraphs) ==
    LET start == IF coa.paragraph_range = <<>> THEN 0 ELSE coa.paragraph_range[1].start
        end   == IF coa.paragraph_range = <<>> THEN 0 ELSE coa.paragraph_range[1].end
        missing == (start..end) \ all_paragraphs
    IN  IF end > 0
        THEN [paragraph_range |-> coa.paragraph_range,
              paragraph_range_verified |-> (missing = {}),
              missing_paragraphs |-> sorted(missing)]
        ELSE [paragraph_range |-> coa.paragraph_range,
              paragraph_range_verified |-> FALSE,
              missing_paragraphs |-> <<>>]

\* the body of `for coa in coa_list`
VerifyRange(coa, all_paragraphs) ==
    LET start == IF coa.paragraph_range = <<>> THEN 0 ELSE coa.paragraph_range[1].start
        end   == IF coa.paragraph_range = <<>> THEN 0 ELSE coa.paragraph_range[1].end
        missing == (start..end) \ all_paragraphs
    IN  IF start > 0 /\ end > 0
        THEN [paragraph_range |-> coa.paragraph_range,
              paragraph_range_verified |-> (missing = {}),
              missing_paragraphs |-> sorted(missing)]
        ELSE [paragraph_range |-> coa.paragraph_range,
              paragraph_range_verified |-> FALSE,
              missing_paragraphs |-> <<>>]

verify_causes_of_action(coas, pgs) ==
    IF coas = <<>> THEN <<>>
    ELSE [i \in 1..Len(coas) |-> VerifyRange(coas[i], AllParagraphs(pgs))]

(***************************************************************************)
(* Specification of the range verification: any candidates, then one call  *)
(* on any page store of two pages                                          *)
(***************************************************************************)
ParaLines ==
    {TextLine} \cup {ParaLine(n) : n \in 1..MaxPara}
               \cup {BareLine(n) : n \in 1..MaxPara}

ParaTexts == UNION {[1..k -> ParaLines] : k \in 0..MaxParaLines}

\* a range bound is any integer from -1 to beyond the largest paragraph
RangeBounds == (0 - 1)..(MaxPara + 1)

CoaRanges ==
    [paragraph_range : {<<>>} \cup {<<r>> : r \in [start : RangeBounds, end : RangeBounds]}]

CoaLists == UNION {[1..k -> CoaRanges] : k \in 0..MaxRanges}

InitCoa ==
    /\ pc = "idle"
    /\ coa_list \in CoaLists
    /\ verified_coas = <<>>
    /\ pages = <<>>
    /\ search_text = <<>>
    /\ page_number = 0
    /\ result = None
    /\ ClassifyIdle
    /\ MergeIdle
    /\ IndexIdle
    /\ MainIdle
    /\ GuiIdle
    /\ RemoveIdle

\* step 9 of _classify_and_write: the pages of the document are any two
\* pages in ascending order of their numbers
VerifyCausesOfAction ==
    /\ pc = "idle"
    /\ \E t \in ParaTexts : \E c \in 0..Len(t) : \E n1 \in 1..2 :
        LET pgs == <<[number |-> n1, text |-> SubSeq(t, 1, c)],
                     [number |-> n1 + 1, text |-> SubSeq(t, c + 1, Len(t))]>>
        IN  /\ pages' = pgs
            /\ verified_coas' = verify_causes_of_action(coa_list, pgs)
    /\ pc' = "done"
    /\ UNCHANGED <<coa_list, searchVars, classifyVars, mergeVars, indexVars, mainVars,
                   guiVars, removeVars>>

NextCoa == VerifyCausesOfAction

SpecCoa == InitCoa /\ [][NextCoa]_vars

(***************************************************************************)
(* Properties of verify_causes_of_action                                   *)
(***************************************************************************)
\* the paragraph numbers found on any page of the document
Pooled == UNION {ParagraphNums(pages[i].text) : i \in 1..Len(pages)}

HasRange(i)   == coa_list[i].paragraph_range # <<>>
RangeStart(i) == coa_list[i].paragraph_range[1].start
RangeEnd(i)   == coa_list[i].paragraph_range[1].end

\* C15: for a candidate with start > 0 and end > 0, missing_paragraphs is
\* the ascending list of the integers of [start, end] that are not among
\* the paragraph numbers pooled over all pages, and the range is verified
\* exactly when that list is empty; paragraphs {1,2,4} and range [2,4] (the
\* scaled {1..10,12,13} and [10,13]) give unverified, missing [3].
C15_MissingParagraphs ==
    pc = "done" =>
        /\ Len(verified_coas) = Len(coa_list)
        /\ \A i \in 1..Len(coa_list) :
            (HasRange(i) /\ RangeStart(i) > 0 /\ RangeEnd(i) > 0) =>
                /\ verified_coas[i].missing_paragraphs =
                      sorted({m \in RangeStart(i)..RangeEnd(i) : m \notin Pooled})
                /\ verified_coas[i].paragraph_range_verified
                      = (verified_coas[i].missing_paragraphs = <<>>)
                /\ (Pooled = {1, 2, 4} /\ RangeStart(i) = 2 /\ RangeEnd(i) = 4) =>
                      /\ verified_coas[i].paragraph_range_verified = FALSE
                      /\ verified_coas[i].missing_paragraphs = <<3>>

\* paragraphs 1 and 2 on the first page, 4 on the second, range [2,4]
C15_Witness ==
    /\ pc = "done"
    /\ Len(coa_list) = 1
    /\ HasRange(1) /\ RangeStart(1) = 2 /\ RangeEnd(1) = 4
    /\ ParagraphNums(pages[1].text) = {1, 2}
    /\ ParagraphNums(pages[2].text) = {4}
    /\ verified_coas[1].paragraph_range_verified = FALSE
    /\ verified_coas[1].missing_paragraphs = <<3>>

\* C16: a candidate without a range, or with a bound that is not positive
\* (start = end = 0 included), is reported unverified with an empty missing
\* list whatever the pages hold.
C16_NonPositiveBoundUnverified ==
    pc = "done" =>
        \A i \in 1..Len(coa_list) :
            (~HasRange(i) \/ RangeStart(i) <= 0 \/ RangeEnd(i) <= 0) =>
                /\ i \in DOMAIN verified_coas
                /\ verified_coas[i].paragraph_range_verified = FALSE
                /\ verified_coas[i].missing_paragraphs = <<>>

\* start = 0 with a positive end whose paragraphs are all on the pages: a
\* comparison would have succeeded, the result is unverified all the same
C16_Witness ==
    /\ pc = "done"
    /\ Len(coa_list) = 1
    /\ HasRange(1) /\ RangeStart(1) = 0 /\ RangeEnd(1) = 2
    /\ {1, 2} \subseteq Pooled
    /\ verified_coas[1].paragraph_range_verified = FALSE
    /\ verified_coas[1].missing_paragraphs = <<>>

(***************************************************************************)
(* Properties of normalize                                                 *)
(***************************************************************************)
\* the strings normalize is applied to in a search: the candidate and the
\* text of every page
NormalizeInputs == {search_text} \cup {pages[i].text : i \in 1..Len(pages)}

\* C17: normalize is idempotent: normalizing a normalized string changes
\* nothing, for the candidate and for every page text.
C17_NormalizeIdempotent ==
    \A s \in NormalizeInputs : normalize(normalize(s)) = normalize(s)

\* a candidate with whitespace in front and a whitespace run inside which
\* is not its own normal form, and has a non-empty one
C17_Witness ==
    /\ pc = "done"
    /\ Len(search_text) >= 2
    /\ ReSpace(search_text[1])
    /\ search_text[Len(search_text)] = "a"
    /\ normalize(search_text) = <<"a">>
    /\ \E i \in 1..Len(pages) :
          /\ Len(pages[i].text) = 3
          /\ ReSpace(pages[i].text[2])
          /\ normalize(pages[i].text) # pages[i].text
          /\ Len(normalize(pages[i].text)) = 3

(***************************************************************************)
(* Ordering of the diagnostics of process_document                         *)
(***************************************************************************)
\* strictly ascending / not descending
Ascending(q)     == \A i \in 1..Len(q) : \A j \in 1..Len(q) : i < j => q[i] < q[j]
NotDescending(q) == \A i \in 1..Len(q) : \A j \in 1..Len(q) : i < j => q[i] <= q[j]

DetailPages == [d \in 1..Len(stats.page_details) |-> stats.page_details[d].page]
BlockPages  == [b \in 1..Len(InBlocks) |-> InBlocks[b].page_number]

\* the pages of the blocks that have a non-empty applicable set, in the
\* order of the blocks in the document
PagesWithFootnotes ==
    LET HasFns(b) == Applicable(b) # {}
        idx == SelectSeq([b \in 1..Len(InBlocks) |-> b], HasFns)
    IN  [k \in 1..Len(idx) |-> InBlocks[idx[k]].page_number]

InnerListsAscending ==
    \A d \in 1..Len(stats.page_details) :
        /\ Ascending(stats.page_details[d].fn_numbers)
        /\ Ascending(stats.page_details[d].merged_refs)
        /\ Ascending(stats.page_details[d].unmatched)
        /\ Ascending(stats.page_details[d].no_ocr_text)

\* C18 (as stated): for every document the per-page diagnostic list is in
\* ascending order of page number, and the number lists of each entry are
\* in ascending order of footnote number.
C18_DiagnosticsAscendingByPage ==
    pc = "done" => NotDescending(DetailPages) /\ InnerListsAscending

\* C18 (amended): the per-page diagnostic list has one entry per page block
\* with footnotes, in the order of the blocks in the document, so it is
\* ascending by page number when the blocks of the document are; the number
\* lists of each entry are in ascending order of footnote number for every
\* document.
C18_DiagnosticsInDocumentOrder ==
    pc = "done" =>
        /\ DetailPages = PagesWithFootnotes
        /\ Ascending(BlockPages) => Ascending(DetailPages)
        /\ InnerListsAscending

\* pages 1 and 2 in ascending order, each with an entry, the first entry
\* listing one footnote as merged
C18_Witness ==
    /\ pc = "done"
    /\ BlockPages = <<1, 2>>
    /\ DetailPages = <<1, 2>>
    /\ stats.page_details[1].merged_refs = <<1>>
    /\ stats.page_details[2].fn_numbers = <<2>>

(***************************************************************************)
(* Properties of the merge program, continued                              *)
(***************************************************************************)
\* the run on the same input and classification output with --dry-run set
\* to dry
RunWith(dry) == main(input_exists, content, class_pages, ocr_only, dry)

\* C19: a dry run loads the same inventory and computes the same merged
\* content and statistics as a normal run on the same input; the only
\* difference is that the normal run writes the merged content to the
\* output file and the dry run writes nothing.
C19_DryRunSameComputation ==
    (pc = "done" /\ exit_status = "ok") =>
        /\ RunWith(TRUE).inventory = RunWith(FALSE).inventory
        /\ RunWith(TRUE).classification_fns = RunWith(FALSE).classification_fns
        /\ RunWith(TRUE).merged_content = RunWith(FALSE).merged_content
        /\ RunWith(TRUE).stats = RunWith(FALSE).stats
        /\ RunWith(TRUE).output_file = <<>>
        /\ RunWith(FALSE).output_file = <<RunWith(FALSE).merged_content>>
        /\ merged_content = RunWith(dry_run).merged_content
        /\ stats = RunWith(dry_run).stats
        /\ inventory = load_classification_footnotes(class_pages)
        /\ output_file = IF dry_run THEN <<>> ELSE <<merged_content>>

\* a dry run with a location record that merges a footnote: the merge is
\* computed and reported, nothing is written
C19_Witness ==
    /\ pc = "done"
    /\ exit_status = "ok"
    /\ dry_run
    /\ DOMAIN inventory = {1}
    /\ stats.total_merged = 1
    /\ content = <<(<<Start(1)>>), <<W("p"), R(1)>>, <<R(1), W("x")>>, (<<End(1)>>)>>
    /\ merged_content = <<(<<Start(1)>>), <<W("p"), FN(1, <<W("x")>>)>>, (<<End(1)>>)>>
    /\ output_file = <<>>

\* a page is open when a start delimiter arrives, no page is open when an
\* end delimiter arrives, or a page is still open at the end of the document
RECURSIVE MalformedFrom(_, _, _)
MalformedFrom(lines, i, open) ==
    IF i > Len(lines) THEN open
    ELSE IF IsStart(lines[i]) THEN open \/ MalformedFrom(lines, i + 1, TRUE)
    ELSE IF IsEnd(lines[i]) THEN ~open \/ MalformedFrom(lines, i + 1, FALSE)
    ELSE MalformedFrom(lines, i + 1, open)

Malformed(lines) == MalformedFrom(lines, 1, FALSE)

\* C20: a document with malformed page delimiters makes the run fail with
\* an error; no merged output is produced for it.
C20_MalformedDelimitersAreFatal ==
    (pc = "done" /\ input_exists /\ Malformed(content)) =>
        /\ exit_status = "error"
        /\ output_file = <<>>

(***************************************************************************)
(* Multi-document callers: process_all of 13_text_classifier.py and the    *)
(* window of text_classifier_gui.py with its two background workers.  A    *)
(* document is the way its processing ends:                                *)
(*   "ok"     returned True (or, for the merge, ran to the end)            *)
(*   "false"  returned False                                               *)
(*   "error"  raised an exception                                          *)
(* and, in the window, the kind of path it is: a combined .md file, a      *)
(* document folder, or neither.                                            *)
(***************************************************************************)
Outcomes == {"ok", "false", "error"}

\* process_all: True counts as processed, False or an exception as skipped
ProcessAllTally(item) ==
    [success |-> IF item.outcome = "ok" THEN 1 ELSE 0,
     failed  |-> IF item.outcome = "ok" THEN 0 ELSE 1,
     continue |-> TRUE]

\* _run_classification: a document that returned (True or False) counts as
\* success, a path that is no document or an exception as failed
ClassifyTally(item) ==
    [success |-> IF item.type # "other" /\ item.outcome # "error" THEN 1 ELSE 0,
     failed  |-> IF item.type # "other" /\ item.outcome # "error" THEN 0 ELSE 1,
     continue |-> TRUE]

\* faulty variant: an exception is not caught and ends the loop
MergeTally_ErrorEndsLoop(item) ==
    IF item.outcome = "error"
    THEN [success |-> 0, failed |-> 0, continue |-> FALSE]
    ELSE [success |-> 1, failed |-> 0, continue |-> TRUE]

\* _run_merge_footnotes: an exception counts as failed, all else as success
MergeTally(item) ==
    [success |-> IF item.outcome # "error" THEN 1 ELSE 0,
     failed  |-> IF item.outcome # "error" THEN 0 ELSE 1,
     continue |-> TRUE]

\* the try/except of one loop iteration: which counter goes up, and whether
\* the loop goes on
Tally(kind, item) ==
    IF kind = "process_all" THEN ProcessAllTally(item)
    ELSE IF kind = "classify" THEN ClassifyTally(item)
    ELSE MergeTally(item)

\* the document folders of process_all
DocDirs == UNION {[1..k -> [type : {"dir"}, outcome : Outcomes]] : k \in 0..MaxDocs}

\* the paths selected in the window
GuiItems == [type : {"md"}, outcome : Outcomes]
                \cup {[type |-> "dir", outcome |-> "ok"],
                      [type |-> "other", outcome |-> "ok"]}
Selections == UNION {[1..k -> GuiItems] : k \in 0..MaxDocs}

\* md_paths = [p for p in paths if p.is_file() and p.suffix.lower() == ".md"]
MdPaths(paths) == LET IsMd(p) == p.type = "md" IN SelectSeq(paths, IsMd)

InitCallers ==
    /\ pc = "idle"
    /\ \/ /\ mode = "cli"
          /\ batch \in [doc_dirs : DocDirs, i : {1}, processed : {0}, skipped : {0},
                        returned : {FALSE}]
       \/ /\ mode = "gui"
          /\ batch = NoBatch
    /\ processing = FALSE
    /\ stop_requested = FALSE
    /\ workers = <<>>
    /\ after_queue = 0
    /\ last_done = NoDone
    /\ runs = 0
    /\ pages = <<>>
    /\ search_text = <<>>
    /\ page_number = 0
    /\ result = None
    /\ ClassifyIdle
    /\ MergeIdle
    /\ IndexIdle
    /\ CoaIdle
    /\ MainIdle
    /\ RemoveIdle

OtherVars == <<pc, pages, searchVars, classifyVars, mergeVars, indexVars, coaVars,
               mainVars, removeVars>>

\* process_all: one iteration of `for doc_dir in doc_dirs`
ProcessAllStep ==
    /\ mode = "cli"
    /\ ~batch.returned
    /\ batch.i <= Len(batch.doc_dirs)
    /\ LET t == Tally("process_all", batch.doc_dirs[batch.i])
       IN  batch' = [batch EXCEPT !.processed = @ + t.success,
                                  !.skipped = @ + t.failed,
                                  !.i = @ + 1,
                                  !.returned = ~t.continue]
    /\ UNCHANGED <<mode, processing, stop_requested, workers, after_queue,
                   last_done, runs, OtherVars>>

\* process_all: no document folder at all, or the end of the loop
ProcessAllReturn ==
    /\ mode = "cli"
    /\ ~batch.returned
    /\ batch.i > Len(batch.doc_dirs)
    /\ batch' = [batch EXCEPT !.returned = TRUE]
    /\ UNCHANGED <<mode, processing, stop_requested, workers, after_queue,
                   last_done, runs, OtherVars>>

\* threading.Thread(target=..., args=(paths, ...)).start()
NewWorker(kind, paths) ==
    [kind |-> kind, paths |-> paths, i |-> 1, success |-> 0, failed |-> 0,
     at |-> "check", broke |-> FALSE]

FreeIds == (1..MaxThreads) \ DOMAIN workers

WithWorker(w) ==
    LET id == Min(FreeIds)
    IN  [x \in DOMAIN workers \cup {id} |-> IF x = id THEN w ELSE workers[x]]

\* _start_classification: the Run and Run All buttons
StartClassification ==
    /\ mode = "gui"
    /\ runs < MaxRuns
    /\ FreeIds # {}
    /\ \E tc_imported \in BOOLEAN, client_ok \in BOOLEAN, paths \in Selections :
        IF processing \/ ~tc_imported \/ ~client_ok \/ paths = <<>>
        THEN UNCHANGED <<processing, stop_requested, workers, runs>>
        ELSE /\ processing' = TRUE
             /\ stop_requested' = FALSE
             /\ workers' = WithWorker(NewWorker("classify", paths))
             /\ runs' = runs + 1
    /\ UNCHANGED <<mode, batch, after_queue, last_done, OtherVars>>

\* faulty variant: the merge is started without looking at self.processing
StartMergeFootnotes_NoGuard ==
    /\ mode = "gui"
    /\ runs < MaxRuns
    /\ FreeIds # {}
    /\ \E mf_imported \in BOOLEAN, paths \in Selections :
        IF ~mf_imported \/ paths = <<>> \/ MdPaths(paths) = <<>>
        THEN UNCHANGED <<processing, stop_requested, workers, runs>>
        ELSE /\ processing' = TRUE
             /\ stop_requested' = FALSE
             /\ workers' = WithWorker(NewWorker("merge", MdPaths(paths)))
             /\ runs' = runs + 1
    /\ UNCHANGED <<mode, batch, after_queue, last_done, OtherVars>>

\* _start_merge_footnotes: the Merge and Merge All buttons
StartMergeFootnotes ==
    /\ mode = "gui"
    /\ runs < MaxRuns
    /\ FreeIds # {}
    /\ \E mf_imported \in BOOLEAN, paths \in Selections :
        IF processing \/ ~mf_imported \/ paths = <<>> \/ MdPaths(paths) = <<>>
        THEN UNCHANGED <<processing, stop_requested, workers, runs>>
        ELSE /\ processing' = TRUE
             /\ stop_requested' = FALSE
             /\ workers' = WithWorker(NewWorker("merge", MdPaths(paths)))
             /\ runs' = runs + 1
    /\ UNCHANGED <<mode, batch, after_queue, last_done, OtherVars>>

\* _request_stop: the Stop button
RequestStop ==
    /\ mode = "gui"
    /\ stop_requested' = TRUE
    /\ UNCHANGED <<mode, batch, processing, workers, after_queue, last_done, runs,
                   OtherVars>>

\* a worker at the head of its loop: the next path, or the break on
\* self._stop_requested, or the end of the paths
WorkerCheck ==
    /\ mode = "gui"
    /\ \E id \in DOMAIN workers :
        /\ workers[id].at = "check"
        /\ workers' = [workers EXCEPT ![id] =
              IF workers[id].i > Len(workers[id].paths) THEN [@ EXCEPT !.at = "done"]
              ELSE IF stop_requested THEN [@ EXCEPT !.at = "done", !.broke = TRUE]
              ELSE [@ EXCEPT !.at = "body"]]
    /\ UNCHANGED <<mode, batch, processing, stop_requested, after_queue, last_done,
                   runs, OtherVars>>

\* a worker processing one path inside try/except
WorkerBody ==
    /\ mode = "gui"
    /\ \E id \in DOMAIN workers :
        /\ workers[id].at = "body"
        /\ LET w == workers[id]
               t == Tally(w.kind, w.paths[w.i])
           IN  workers' = [workers EXCEPT ![id] =
                  [w EXCEPT !.success = @ + t.success,
                            !.failed = @ + t.failed,
                            !.i = @ + 1,
                            !.at = IF t.continue THEN "check" ELSE "done"]]
    /\ UNCHANGED <<mode, batch, processing, stop_requested, after_queue, last_done,
                   runs, OtherVars>>

\* a worker behind its loop: the "Done." line and root.after(0,
\* self._processing_finished), the last statement of the thread
WorkerDone ==
    /\ mode = "gui"
    /\ \E id \in DOMAIN workers :
        /\ workers[id].at = "done"
        /\ last_done' = [kind |-> workers[id].kind, paths |-> workers[id].paths,
                         attempted |-> workers[id].i - 1,
                         success |-> workers[id].success,
                         failed |-> workers[id].failed,
                         broke |-> workers[id].broke]
        /\ after_queue' = after_queue + 1
        /\ workers' = [x \in DOMAIN workers \ {id} |-> workers[x]]
    /\ UNCHANGED <<mode, batch, processing, stop_requested, runs, OtherVars>>

\* _processing_finished, run by the event loop
ProcessingFinished ==
    /\ mode = "gui"
    /\ after_queue > 0
    /\ after_queue' = after_queue - 1
    /\ processing' = FALSE
    /\ UNCHANGED <<mode, batch, stop_requested, workers, last_done, runs, OtherVars>>

NextCallers ==
    \/ ProcessAllStep
    \/ ProcessAllReturn
    \/ StartClassification
    \/ StartMergeFootnotes
    \/ RequestStop
    \/ WorkerCheck
    \/ WorkerBody
    \/ WorkerDone
    \/ ProcessingFinished

SpecCallers == InitCallers /\ [][NextCallers]_vars

(***************************************************************************)
(* Properties of the multi-document callers                                *)
(***************************************************************************)
\* the documents of paths before position i that raised
ErrorBefore(paths, i) == \E k \in 1..(i - 1) : k <= Len(paths) /\ paths[k].outcome = "error"

\* C21: in process_all and in the merge worker of the window an exception
\* raised by one document does not end the loop: every document is counted
\* once as it is passed (success or processed, else failed or skipped),
\* process_all returns only after the last document, and a worker leaves
\* its loop before the last document only on a stop request; at the end
\* the two counts add up to the number of documents attempted.
C21_ErrorDoesNotEndTheBatch ==
    /\ batch.processed + batch.skipped = batch.i - 1
    /\ batch.returned => batch.i - 1 = Len(batch.doc_dirs)
    /\ \A id \in DOMAIN workers :
          /\ workers[id].success + workers[id].failed = workers[id].i - 1
          /\ workers[id].at = "done" =>
                \/ workers[id].i - 1 = Len(workers[id].paths)
                \/ workers[id].broke
    /\ last_done.success + last_done.failed = last_done.attempted
    /\ (last_done.kind # "" /\ ~last_done.broke) =>
          last_done.attempted = Len(last_done.paths)

\* the merge worker has finished two documents of which the first raised:
\* one failed, one merged
C21_Witness ==
    /\ last_done.kind = "merge"
    /\ Len(last_done.paths) = 2
    /\ last_done.paths[1].outcome = "error"
    /\ last_done.paths[2].outcome = "ok"
    /\ last_done.attempted = 2
    /\ last_done.success = 1
    /\ last_done.failed = 1

(***************************************************************************)
(* Further properties of process_document                                  *)
(***************************************************************************)
\* no page of the document has a text block for n
NoTextBlockAnywhere(n) == \A b \in 1..Len(InBlocks) : ~HasTextBlock(InBlocks[b], n)

\* the (number, block) pairs for which the location records put the number
\* on the block's page and no text was resolved for it
NoTextPairs ==
    {q \in FnNums \X (1..Len(InBlocks)) :
        q[1] \in Applicable(q[2]) /\ ResolvedText(q[2], q[1]) = <<>>}

\* the entry of page_details written for block b, an empty entry when none
\* was written
EntryOf(b) ==
    LET d == Cardinality({c \in 1..b : Applicable(c) # {}})
    IN  IF d \in 1..Len(stats.page_details) THEN stats.page_details[d]
        ELSE [page |-> 0, fn_numbers |-> <<>>, merged_refs |-> <<>>,
              unmatched |-> <<>>, no_ocr_text |-> <<>>]

\* C22: with location records, a number without a text block anywhere whose
\* corrected page is a page of the document is among the found numbers and
\* in the no-text list of that page's entry and is counted in the no-text
\* total; every page block of the document is still written to the output
\* and every page with applicable numbers still gets its entry.
C22_MissingTextNeverHalts ==
    (pc = "done" /\ inventory # <<>>) =>
        /\ \A n \in DOMAIN classification_fns : \A b \in 1..Len(InBlocks) :
              (NoTextBlockAnywhere(n)
                  /\ classification_fns[n].page = InBlocks[b].page_number) =>
                    /\ EntryOf(b).page = InBlocks[b].page_number
                    /\ InSeq(n, EntryOf(b).fn_numbers)
                    /\ InSeq(n, EntryOf(b).no_ocr_text)
        /\ stats.total_no_ocr_text = Cardinality(NoTextPairs)
        /\ [b \in 1..Len(OutBlocks) |-> OutBlocks[b].page_number] = BlockPages
        /\ DetailPages = PagesWithFootnotes

\* number 1 is recorded for the empty first page and has no text block; the
\* second page still gets the text of number 2 merged into its reference
C22_Witness ==
    /\ pc = "done"
    /\ Len(InBlocks) = 2
    /\ 1 \in DOMAIN classification_fns
    /\ NoTextBlockAnywhere(1)
    /\ classification_fns[1].page = InBlocks[1].page_number
    /\ stats.page_details[1].no_ocr_text = <<1>>
    /\ stats.total_no_ocr_text = 1
    /\ HasAnnotation(OutBlocks[2], 2)

(***************************************************************************)
(* The index walk of search_source_text against normalize                  *)
(***************************************************************************)
\* collapsing and trimming the runs of space, tab, newline and carriage
\* return only
RECURSIVE WalkLStrip(_)
WalkLStrip(s) == IF s # <<>> /\ WalkSpace(Head(s)) THEN WalkLStrip(Tail(s)) ELSE s

RECURSIVE WalkCollapse(_)
WalkCollapse(s) ==
    IF s = <<>> THEN <<>>
    ELSE IF WalkSpace(Head(s)) THEN <<" ">> \o WalkCollapse(WalkLStrip(s))
    ELSE <<Head(s)>> \o WalkCollapse(Tail(s))

WalkNormalize(s) ==
    LET c == WalkLStrip(WalkCollapse(s))
    IN  IF c # <<>> /\ c[Len(c)] = " " THEN SubSeq(c, 1, Len(c) - 1) ELSE c

\* the original index reached after k steps of the walk, leading whitespace
\* skipped first
WalkIndex(source, k) == AdvanceToStart(source, SkipRun(source, 0), 0, k)

\* C23: on every page text normalize collapses exactly the runs of space,
\* tab, newline and carriage return, and after k steps of the walk the
\* original index corresponds to normalized offset k: the text before the
\* index, leading whitespace dropped and runs collapsed as normalize does,
\* is k characters long.
C23_WalkInLockstepWithNormalize ==
    Searched =>
        /\ normalize(PageText) = WalkNormalize(PageText)
        /\ \A k \in 0..Len(normalize(PageText)) :
              /\ WalkIndex(PageText, k) # -1
              /\ Len(CollapseRuns(LStrip(SubSeq(PageText, 1, WalkIndex(PageText, k))))) = k

(***************************************************************************)
(* The extraction map of process_document                                  *)
(***************************************************************************)
\* the positions <<block, line>> of the text blocks of n, and their order
\* in the document
BlockPositions(n) ==
    {q \in (1..Len(InBlocks)) \X (1..MaxDocLines) :
        /\ q[2] <= Len(InBlocks[q[1]].lines)
        /\ IsTextBlock(InBlocks[q[1]].lines[q[2]])
        /\ BlockNum(InBlocks[q[1]].lines[q[2]]) = n}

NotAfter(q, r) == q[1] < r[1] \/ (q[1] = r[1] /\ q[2] <= r[2])

\* C24: the extraction map has an entry for exactly the numbers that have a
\* text block, and the entry is the text of the block that comes last in the
\* document: the block of the later page, and on one page the later line.
C24_LastBlockWins ==
    pc = "done" =>
        /\ DOMAIN all_ocr_texts = {n \in FnNums : BlockPositions(n) # {}}
        /\ \A n \in DOMAIN all_ocr_texts :
              \E q \in BlockPositions(n) :
                  /\ \A r \in BlockPositions(n) : NotAfter(r, q)
                  /\ all_ocr_texts[n] = BlockText(InBlocks[q[1]].lines[q[2]])

\* text blocks of footnote 1 on two pages, with different texts: the map
\* holds the text of the second page
C24_Witness ==
    /\ pc = "done"
    /\ Len(InBlocks) = 2
    /\ InBlocks[1].lines = <<(<<R(1), W("x")>>)>>
    /\ InBlocks[2].lines = <<(<<R(1), W("y")>>)>>
    /\ all_ocr_texts[1] = <<W("y")>>

\* two text blocks of footnote 1 on one page: the map holds the later line
C24_WitnessSamePage ==
    /\ pc = "done"
    /\ Len(InBlocks) = 1
    /\ InBlocks[1].lines = <<(<<R(1), W("x")>>), (<<R(1), W("y")>>)>>
    /\ all_ocr_texts[1] = <<W("y")>>

(***************************************************************************)
(* Specification of remove_fn_text_blocks: the lines of one page and a set *)
(* of numbers, then one call                                               *)
(***************************************************************************)
\* the lines of the page: blank, body text, a text block of each number
RemoveVocab == {<<>>, <<W("p")>>} \cup {<<R(n), W("x")>> : n \in FnNums}

RemoveInputs == UNION {[1..k -> RemoveVocab] : k \in 0..MaxRemoveLines}

InitRemove ==
    /\ pc = "idle"
    /\ rm_lines \in RemoveInputs
    /\ rm_numbers \in SUBSET FnNums
    /\ rm_cleaned = <<>>
    /\ pages = <<>>
    /\ search_text = <<>>
    /\ page_number = 0
    /\ result = None
    /\ ClassifyIdle
    /\ MergeIdle
    /\ IndexIdle
    /\ CoaIdle
    /\ MainIdle
    /\ GuiIdle

RemoveFnTextBlocks ==
    /\ pc = "idle"
    /\ rm_cleaned' = remove_fn_text_blocks(rm_lines, rm_numbers)
    /\ pc' = "done"
    /\ UNCHANGED <<rm_lines, rm_numbers, pages, searchVars, classifyVars, mergeVars,
                   indexVars, coaVars, mainVars, guiVars>>

NextRemove == RemoveFnTextBlocks

SpecRemove == InitRemove /\ [][NextRemove]_vars

(***************************************************************************)
(* Properties of remove_fn_text_blocks                                     *)
(***************************************************************************)
\* line i is a text block of a number to remove
IsRemovedBlock(i) ==
    /\ i \in 1..Len(rm_lines)
    /\ IsTextBlock(rm_lines[i])
    /\ BlockNum(rm_lines[i]) \in rm_numbers

\* i and j are remaining content with no remaining content between them
NeighbouringContent(keep, i, j) ==
    /\ i \in keep /\ j \in keep /\ i < j
    /\ NonBlank(rm_lines[i]) /\ NonBlank(rm_lines[j])
    /\ \A m \in (i + 1)..(j - 1) : m \in keep => IsBlankLine(rm_lines[m])

\* C25: the result is the argument without some of its lines, in the same
\* order; the text blocks of the numbers to remove are gone; any other line
\* that is gone is a blank line immediately next to a removed text block;
\* and where blank lines stood between two pieces of remaining content, at
\* least one of them is still there.
C25_RemovalKeepsSeparation ==
    pc = "done" =>
        \E keep \in SUBSET (1..Len(rm_lines)) :
            /\ rm_cleaned = KeepLines(rm_lines, keep, 1)
            /\ \A i \in 1..Len(rm_lines) : IsRemovedBlock(i) => i \notin keep
            /\ \A i \in (1..Len(rm_lines)) \ keep :
                  \/ IsRemovedBlock(i)
                  \/ /\ IsBlankLine(rm_lines[i])
                     /\ IsRemovedBlock(i - 1) \/ IsRemovedBlock(i + 1)
            /\ \A i, j \in keep :
                  (NeighbouringContent(keep, i, j)
                      /\ \E m \in (i + 1)..(j - 1) : IsBlankLine(rm_lines[m]))
                    => \E m \in (i + 1)..(j - 1) : m \in keep /\ IsBlankLine(rm_lines[m])

(***************************************************************************)
(* Per-page resolution and the statistics of process_document              *)
(***************************************************************************)
\* the numbers the inventory, as the call leaves it, puts on page p
InventoryOn(p) == {n \in DOMAIN classification_fns : classification_fns[n].page = p}

\* the numbers with a text block among the lines of block b
BlocksOn(b) == {n \in FnNums : HasTextBlock(InBlocks[b], n)}

\* the set process_document has to work on for block b
PageSet(b) ==
    IF inventory # <<>> THEN InventoryOn(InBlocks[b].page_number) ELSE BlocksOn(b)

\* C26: the found numbers reported for a page block are, with a non-empty
\* inventory, exactly the inventory numbers whose corrected page is the
\* block's page number and, with no inventory, exactly the numbers having a
\* text block on the page; a block whose set is empty has no entry.
C26_ApplicableSet ==
    pc = "done" =>
        /\ Len(stats.page_details) = Cardinality({b \in 1..Len(InBlocks) : PageSet(b) # {}})
        /\ \A b \in 1..Len(InBlocks) :
              PageSet(b) # {} =>
                LET d == Cardinality({c \in 1..b : PageSet(c) # {}})
                IN  /\ d <= Len(stats.page_details)
                    /\ stats.page_details[d].page = InBlocks[b].page_number
                    /\ stats.page_details[d].fn_numbers = sorted(PageSet(b))

\* footnote 1 is recorded for the page, footnote 2 has a text block on it
\* and no record: the page's found numbers are 1 alone
C26_Witness ==
    /\ pc = "done"
    /\ DOMAIN inventory = {1}
    /\ Len(InBlocks) = 1
    /\ classification_fns[1].page = InBlocks[1].page_number
    /\ HasTextBlock(InBlocks[1], 2)
    /\ stats.page_details[1].fn_numbers = <<1>>

\* no inventory: the found numbers are the numbers of the text blocks
C26_WitnessOcrOnly ==
    /\ pc = "done"
    /\ inventory = <<>>
    /\ Len(InBlocks) = 1
    /\ HasInlineRef(InBlocks[1], 1)
    /\ HasTextBlock(InBlocks[1], 2)
    /\ stats.page_details[1].fn_numbers = <<2>>

\* the elements of a list
Elems(s) == {s[k] : k \in 1..Len(s)}

RECURSIVE FoundLengths(_)
FoundLengths(d) ==
    IF d = 0 THEN 0
    ELSE Len(stats.page_details[d].fn_numbers) + FoundLengths(d - 1)

\* C27: on every entry the merged and the unmatched list are disjoint, their
\* union is the found list and the no-text list is within the found list;
\* total_merged + total_unmatched = total_found = the sum of the lengths of
\* the found lists; pages_with_footnotes is the number of entries.
C27_StatisticsConservation ==
    pc = "done" =>
        /\ \A d \in 1..Len(stats.page_details) :
              LET e == stats.page_details[d]
              IN  /\ Elems(e.merged_refs) \cap Elems(e.unmatched) = {}
                  /\ Elems(e.merged_refs) \cup Elems(e.unmatched) = Elems(e.fn_numbers)
                  /\ Elems(e.no_ocr_text) \subseteq Elems(e.fn_numbers)
                  /\ Len(e.merged_refs) + Len(e.unmatched) = Len(e.fn_numbers)
        /\ stats.total_merged + stats.total_unmatched = stats.total_found
        /\ stats.total_found = FoundLengths(Len(stats.page_details))
        /\ stats.pages_with_footnotes = Len(stats.page_details)

\* two footnotes recorded for one page that references the first alone: one
\* merged, one unmatched, two found, none with text
C27_Witness ==
    /\ pc = "done"
    /\ Len(InBlocks) = 1
    /\ InBlocks[1].lines = <<(<<W("p"), R(1)>>)>>
    /\ DOMAIN inventory = {1, 2}
    /\ stats.page_details = <<[page |-> InBlocks[1].page_number,
                               fn_numbers |-> <<1, 2>>, merged_refs |-> <<1>>,
                               unmatched |-> <<2>>, no_ocr_text |-> <<1, 2>>]>>
    /\ stats.total_found = 2
    /\ stats.total_merged = 1
    /\ stats.total_unmatched = 1

\* C28: when the output holds an annotation for footnote n, no page of the
\* output still holds a text block of n.
C28_NoDuplicatedText ==
    pc = "done" =>
        \A n \in FnNums :
            (\E b \in 1..Len(OutBlocks) : HasAnnotation(OutBlocks[b], n))
                => \A c \in 1..Len(OutBlocks) : ~HasTextBlock(OutBlocks[c], n)

(***************************************************************************)
(* Worker exclusion in the window                                          *)
(***************************************************************************)
\* a step that starts a thread
StartsWorker == DOMAIN workers' \ DOMAIN workers # {}

\* C29: at most one worker thread exists at any time and a worker exists
\* only while the processing flag is set; a thread is started only by a step
\* taken with the flag clear, which sets it; the flag is cleared only when
\* no worker is left, its completion callback having been posted behind its
\* loop.
C29_WorkerExclusion ==
    /\ [](/\ Cardinality(DOMAIN workers) <= 1
          /\ workers # <<>> => processing
          /\ after_queue > 0 => (processing /\ workers = <<>>))
    /\ [][StartsWorker => (~processing /\ processing')]_vars
    /\ [][(processing /\ ~processing') => (workers = <<>> /\ after_queue = 1)]_vars

\* a second run is under way after the first one finished and the flag was
\* cleared in between
C29_Witness ==
    /\ mode = "gui"
    /\ runs = 2
    /\ processing
    /\ Cardinality(DOMAIN workers) = 1
    /\ last_done.kind # ""
    /\ after_queue = 0

(***************************************************************************)
(* Empty paragraph ranges in verify_causes_of_action                       *)
(***************************************************************************)
\* C30: a candidate is reported as verified only if its range is not empty
\* (positive start, start <= end) and every paragraph number of the range is
\* among the numbers observed on the pages.
C30_VerifiedOnlyIfNonEmptyAndObserved ==
    pc = "done" =>
        \A i \in 1..Len(verified_coas) :
            verified_coas[i].paragraph_range_verified =>
                /\ HasRange(i)
                /\ RangeStart(i) > 0
                /\ RangeStart(i) <= RangeEnd(i)
                /\ \A m \in RangeStart(i)..RangeEnd(i) : m \in Pooled

====
